---------------------------- MODULE Spec2Model ----------------------------
(***************************************************************************)
(* Model of claude-code-remote: the session registry (sessionManager.js),  *)
(* the PTY bridge (ptyManager.js), the per-connection WebSocket relay      *)
(* (routes/ws.js) and the browser's reconnect logic (App.connectWebSocket).*)
(*                                                                         *)
(* The server runs on one Node.js event loop: every handler below runs to  *)
(* completion, so each is one atomic action.  Timers (setTimeout,          *)
(* setInterval) are pending flags or counts whose firing is an action of   *)
(* its own; the order in which pending timers and I/O events fire is       *)
(* left open.                                                              *)
(***************************************************************************)
EXTENDS Integers, Sequences, FiniteSets, TLC

---------------------------------------------------------------------------
(* Bounds of the model. *)

\* session ids (uuids) drawn by createSession in the registry specification
MaxIds == 4
\* session ids drawn by createSession in the connection specification
MaxWsIds == 1
\* WebSocket connections the server accepts in a run
MaxConns == 2
\* output chunks the PTYs emit in a run
MaxChunks == 2
\* client messages the server receives in a run
MaxMsgs == 2
\* connections, chunks and messages of the specifications that follow one connection
SoloConns == 1
SoloChunks == 1
SoloMsgs == 1
\* answered heartbeat pings the model counts per connection
MaxPongs == 1
\* WebSockets the browser creates for its session in a run
MaxSocks == 6
\* the same where the page's heartbeat runs too
FewSocks == 2
\* the same where only connecting, opening, closing and retrying happen
RetrySocks == 7

(* Program constants. *)

\* App.maxReconnectAttempts
maxReconnectAttempts == 5
\* the factor and the cap of the reconnect delay, in ms
BaseDelay == 1000
CapDelay == 10000

\* config.maxSessions, MAX_SESSIONS unset
maxSessions == 3

Ids == 1..(MaxIds + 1)
Conns == 1..MaxConns
Socks == 1..(IF MaxSocks > RetrySocks THEN MaxSocks ELSE RetrySocks)
NoSock == 0
NoConn == 0
NoSession == 0

---------------------------------------------------------------------------
VARIABLES
  \* ---- sessionManager.js
  sessions,      \* keys of the sessions Map
  nextId,        \* the next uuid uuidv4() returns (ids are never reused)
  bootTimer,     \* ids whose 100 ms auto-start timer is pending
  reply,         \* outcome of the last API call or upgrade request
  \* ---- ptyManager.js / node-pty
  pty,           \* [id -> "none" | "running" | "killed" | "exited"]
  ptyWrites,     \* [id -> sequence of data written to the PTY]
  ptyDims,       \* [id -> <<cols, rows>>]
  chunkNo,       \* number of output chunks emitted so far (chunk k is <<k>>)
  killCalls,     \* [id -> number of ptyProcess.kill() calls made on the PTY]
  \* ---- routes/ws.js
  connections,   \* the connections Map: [id -> connection or NoConn]
  ready,         \* [c -> "NONE" | "OPEN" | "CLOSING" | "CLOSED"] ws.readyState
  sid,           \* [c -> session the connection was bound to]
  isAlive,       \* [c -> ws.isAlive]
  outputBuffer,  \* [c -> chunks buffered]
  flushTimeout,  \* [c -> flushTimeout # null]
  flushTimers,   \* [c -> number of scheduled flushBuffer timers not yet fired]
  attachTimer,   \* [c -> the 100 ms attach timer is pending]
  dataAttached,  \* [c -> ptyDataHandler is subscribed to the PTY's onData]
  sent,          \* [c -> envelopes sent on the connection, in order]
  \* ---- history (observations; nMsgs also bounds the messages of a run)
  emittedTo,     \* [c -> chunks emitted while c was OPEN and attached]
  window,        \* [c -> chunks emitted since the pending flush timer was armed]
  unanswered,    \* [c -> heartbeat pings sent on c since its last transport pong]
  unheard,       \* [c -> heartbeat pings sent on c since its last transport pong or ping envelope]
  nMsgs,         \* client messages received so far
  lastMsg,       \* the client message received last
  terminated,    \* [c -> the heartbeat called terminate() on c while it was open]
  answered,      \* [c -> heartbeat pings of c answered by a transport pong, up to MaxPongs]
  \* ---- the browser: App and its entry of App.sessions for one session
  inApp,            \* the session has an entry in App.sessions
  closing,          \* closeSession awaits the DELETE request
  wsState,          \* [k -> readyState of the k-th WebSocket created]
  sessionWs,        \* session.ws: the socket created last, or NoSock
  status,           \* session.status
  reconnectAttempts,\* session.reconnectAttempts
  reconnectTimers,  \* number of pending reconnect timers
  heartbeatInterval,\* the socket whose 20 s ping interval runs, or NoSock
  pongTimers,       \* sockets with a pending 10 s pong timer
  pongTimeout,      \* session.pongTimeout: the socket of the timer it holds, or NoSock
  inputListeners,   \* listeners registered on session.terminal.onData
  inputSent,        \* history: envelopes sent for the terminal data event handled last
  delays,           \* history: delays scheduled since the last successful open
  \* ---- the browser: KeyboardStateManager and ResizeCoordinator
  currentState,     \* KeyboardStateManager.currentState
  animationTimeout, \* the state the timer named by animationTimeout leads to, or "null"
  animTimers,       \* [state -> pending animation timers that lead to it]
  keyboard,         \* the on-screen keyboard is visible (visualViewport's geometry)
  pendingFit,       \* ResizeCoordinator.pendingFit
  fitTimers,        \* pending debounce timers of requestFit
  fitIn,            \* history: states of the manager in which performFit fitted the terminal
  \* ---- the network between the page and the server
  answer,           \* [k -> the server's answer to the upgrade request of socket k:
                    \*       "none" | "accepted" | "rejected"]
  peer,             \* [c -> the address the upgrade request of connection c came from]
  \* ---- middleware/tailscale.js
  clientIP,         \* request.ip of the request the hook looks at, as a sequence of characters
  verdict           \* what tailscaleVerify did with it: "none" | "passed" | "403"

regVars == <<sessions, nextId, bootTimer>>
ptyVars == <<pty, ptyWrites, ptyDims, chunkNo, killCalls>>
wsVars == <<connections, ready, sid, isAlive, outputBuffer, flushTimeout,
            flushTimers, attachTimer, dataAttached, sent>>
histVars == <<emittedTo, window, unanswered, unheard, nMsgs, lastMsg, terminated,
              answered>>
serverVars == <<regVars, ptyVars, wsVars, histVars, reply>>
kbVars == <<currentState, animationTimeout, animTimers, keyboard, pendingFit, fitTimers,
            fitIn>>
clientVars == <<inApp, closing, wsState, sessionWs, status, reconnectAttempts,
                reconnectTimers, heartbeatInterval, pongTimers, pongTimeout,
                inputListeners, inputSent, delays, kbVars>>
netVars == <<answer, peer, clientIP, verdict>>
vars == <<serverVars, clientVars, netVars>>

---------------------------------------------------------------------------
(* Initial state: the module-level Maps are empty, no socket exists. *)

InitProgram ==
  /\ sessions = {}
  /\ nextId = 1
  /\ bootTimer = {}
  /\ reply = "none"
  /\ pty = [i \in Ids |-> "none"]
  /\ ptyWrites = [i \in Ids |-> <<>>]
  /\ ptyDims = [i \in Ids |-> <<0, 0>>]
  /\ chunkNo = 0
  /\ killCalls = [i \in Ids |-> 0]
  /\ connections = [i \in Ids |-> NoConn]
  /\ ready = [c \in Conns |-> "NONE"]
  /\ sid = [c \in Conns |-> NoSession]
  /\ isAlive = [c \in Conns |-> FALSE]
  /\ outputBuffer = [c \in Conns |-> <<>>]
  /\ flushTimeout = [c \in Conns |-> FALSE]
  /\ flushTimers = [c \in Conns |-> 0]
  /\ attachTimer = [c \in Conns |-> FALSE]
  /\ dataAttached = [c \in Conns |-> FALSE]
  /\ sent = [c \in Conns |-> <<>>]
  /\ emittedTo = [c \in Conns |-> <<>>]
  /\ window = [c \in Conns |-> <<>>]
  /\ unanswered = [c \in Conns |-> 0]
  /\ unheard = [c \in Conns |-> 0]
  /\ nMsgs = 0
  /\ lastMsg = [type |-> "none"]
  /\ terminated = [c \in Conns |-> FALSE]
  /\ answered = [c \in Conns |-> 0]
  /\ inApp = FALSE
  /\ closing = FALSE
  /\ wsState = [k \in Socks |-> "NONE"]
  /\ sessionWs = NoSock
  /\ status = "none"
  /\ reconnectAttempts = 0
  /\ reconnectTimers = 0
  /\ heartbeatInterval = NoSock
  /\ pongTimers = {}
  /\ pongTimeout = NoSock
  /\ inputListeners = 0
  /\ inputSent = <<>>
  /\ currentState = "IDLE"
  /\ animationTimeout = "null"
  /\ animTimers = [st \in {"KEYBOARD_OPEN", "IDLE"} |-> 0]
  /\ keyboard = FALSE
  /\ pendingFit = FALSE
  /\ fitTimers = 0
  /\ fitIn = {}
  /\ delays = <<>>
  /\ answer = [k \in Socks |-> "none"]
  /\ peer = [c \in Conns |-> <<0, 0, 0, 0>>]

\* no request has reached the hook
Init ==
  /\ InitProgram
  /\ clientIP = <<>>
  /\ verdict = "none"

---------------------------------------------------------------------------
(* sessionManager.js *)

\* createSession's limit check with >= written as >
AtCapacityOffByOne == Cardinality(sessions) > maxSessions

\* createSession's limit check: sessions.size >= config.maxSessions
AtCapacity == Cardinality(sessions) >= maxSessions

\* an id generator that hands out again the smallest id no live session holds
uuidv4Recycled == CHOOSE i \in Ids : i \notin sessions /\ \A j \in Ids \ sessions : i <= j

\* uuidv4(): a fresh id on every call
uuidv4 == nextId

\* a createSession that registers the session and arms the timer before it
\* spawns the PTY
CreateSessionRegistersFirst(limit, auto, spawnOk) ==
  /\ nextId <= limit
  /\ IF AtCapacity
       THEN /\ reply' = "capacity"
            /\ UNCHANGED <<sessions, nextId, bootTimer, ptyVars>>
       ELSE /\ nextId' = nextId + 1
            /\ sessions' = sessions \cup {uuidv4}
            /\ bootTimer' = IF auto THEN bootTimer \cup {uuidv4} ELSE bootTimer
            /\ pty' = [pty EXCEPT ![uuidv4] = IF spawnOk THEN "running" ELSE "exited"]
            /\ ptyDims' = [ptyDims EXCEPT ![uuidv4] = <<80, 24>>]
            /\ reply' = IF spawnOk THEN "created" ELSE "spawn_error"
            /\ UNCHANGED <<ptyWrites, chunkNo, killCalls>>
  /\ UNCHANGED <<wsVars, histVars, clientVars, netVars>>

\* createSession(options): options.autoStartClaude is `auto`; spawnPty either
\* returns a PTY (spawnOk) or throws.  `limit` bounds the ids the model draws.
CreateSession(limit, auto, spawnOk) ==
  /\ nextId <= limit
  /\ IF AtCapacity
       THEN \* throw new Error('Maximum sessions ... reached')
            /\ reply' = "capacity"
            /\ UNCHANGED <<sessions, nextId, bootTimer, ptyVars>>
       ELSE IF ~spawnOk
         THEN \* uuidv4() was drawn, pty.spawn threw before sessions.set
              /\ nextId' = nextId + 1
              /\ reply' = "spawn_error"
              /\ UNCHANGED <<sessions, bootTimer, ptyVars>>
         ELSE /\ nextId' = nextId + 1
              /\ pty' = [pty EXCEPT ![uuidv4] = "running"]
              /\ ptyDims' = [ptyDims EXCEPT ![uuidv4] = <<80, 24>>]
              /\ sessions' = sessions \cup {uuidv4}
              /\ bootTimer' = IF auto THEN bootTimer \cup {uuidv4} ELSE bootTimer
              /\ reply' = "created"
              /\ UNCHANGED <<ptyWrites, chunkNo, killCalls>>
  /\ UNCHANGED <<wsVars, histVars, clientVars, netVars>>

\* a lookup that still finds sessions that were deleted
getSessionStale(id) == IF id \in Ids /\ pty[id] # "none" THEN id ELSE NoSession

\* getSession(id): sessions.get(id) || null
getSession(id) == IF id \in sessions THEN id ELSE NoSession

\* killPty(ptyProcess): kill() is wrapped in try/catch; when it throws
\* (killOk = FALSE) the process is left as it was.
killPty(id, killOk) ==
  IF pty[id] = "running" /\ killOk THEN [pty EXCEPT ![id] = "killed"] ELSE pty

\* a deleteSession that kills the process and leaves the entry in the Map
DeleteSessionKeepsEntry(id, killOk) ==
  /\ IF getSession(id) = NoSession
       THEN /\ reply' = "notfound"
            /\ UNCHANGED <<pty, killCalls>>
       ELSE /\ pty' = killPty(id, killOk)
            /\ killCalls' = [killCalls EXCEPT ![id] = @ + 1]
            /\ reply' = "deleted"
  /\ UNCHANGED <<sessions, nextId, bootTimer, ptyWrites, ptyDims, chunkNo, wsVars, histVars, clientVars, netVars>>

\* a deleteSession whose kill is not wrapped in try/catch: what kill()
\* throws leaves the function before sessions.delete
DeleteSessionKillRaises(id, killOk) ==
  /\ IF getSession(id) = NoSession
       THEN /\ reply' = "notfound"
            /\ UNCHANGED <<sessions, pty, killCalls>>
       ELSE /\ pty' = killPty(id, killOk)
            /\ killCalls' = [killCalls EXCEPT ![id] = @ + 1]
            /\ sessions' = IF killOk THEN sessions \ {id} ELSE sessions
            /\ reply' = IF killOk THEN "deleted" ELSE "kill_error"
  /\ UNCHANGED <<nextId, bootTimer, ptyWrites, ptyDims, chunkNo, wsVars, histVars, clientVars, netVars>>

\* deleteSession(id)
DeleteSession(id, killOk) ==
  /\ IF getSession(id) = NoSession
       THEN /\ reply' = "notfound"
            /\ UNCHANGED <<sessions, pty, killCalls>>
       ELSE /\ pty' = killPty(id, killOk)
            /\ killCalls' = [killCalls EXCEPT ![id] = @ + 1]
            /\ sessions' = sessions \ {id}
            /\ reply' = "deleted"
  /\ UNCHANGED <<nextId, bootTimer, ptyWrites, ptyDims, chunkNo, wsVars, histVars, clientVars, netVars>>

\* a callback that writes the command without looking the session up
BootstrapTimerUnchecked(id) ==
  /\ id \in bootTimer
  /\ bootTimer' = bootTimer \ {id}
  /\ ptyWrites' = [ptyWrites EXCEPT ![id] = Append(@, "claude")]
  /\ UNCHANGED <<sessions, nextId, reply, pty, ptyDims, chunkNo, killCalls, wsVars, histVars, clientVars, netVars>>

\* resizePty(ptyProcess, cols, rows) raises what ptyProcess.resize throws:
\* node-pty refuses non-positive cols or rows with an Error
resizePtyThrows(cols, rows) == cols <= 0 \/ rows <= 0

\* resizeSession(id, cols, rows): resizePty on the session's PTY if the id is
\* registered; nothing catches what resizePty raises
ResizeSession(id, cols, rows) ==
  /\ IF getSession(id) = NoSession
       THEN /\ reply' = "returned"
            /\ UNCHANGED ptyDims
       ELSE IF resizePtyThrows(cols, rows)
         THEN /\ reply' = "resize_error"
              /\ UNCHANGED ptyDims
         ELSE /\ reply' = "returned"
              /\ ptyDims' = [ptyDims EXCEPT ![id] = <<cols, rows>>]
  /\ UNCHANGED <<regVars, pty, ptyWrites, chunkNo, killCalls, wsVars, histVars, clientVars, netVars>>

\* the setTimeout callback of createSession (100 ms after creation)
BootstrapTimer(id) ==
  /\ id \in bootTimer
  /\ bootTimer' = bootTimer \ {id}
  /\ ptyWrites' = IF id \in sessions
                    THEN [ptyWrites EXCEPT ![id] = Append(@, "claude")]
                    ELSE ptyWrites
  /\ UNCHANGED <<sessions, nextId, reply, pty, ptyDims, chunkNo, killCalls, wsVars, histVars, clientVars, netVars>>

---------------------------------------------------------------------------
(* routes/ws.js: envelopes, JSON.stringify'ed by the server *)

\* a status envelope that names no session
StatusEnvUnbound(id) == [type |-> "status", status |-> "connected", sessionId |-> NoSession]

\* the initial status envelope of wss.on('connection')
StatusEnv(id) == [type |-> "status", status |-> "connected", sessionId |-> id]
OutputEnv(data) == [type |-> "output", data |-> data]
ExitEnv(code) == [type |-> "exit", code |-> code]
\* an answer that carries a timestamp of the server's own
PongEnvServerTime(m) == [type |-> "pong", timestamp |-> 0]

\* the answer to ping message m; JSON.stringify drops a property whose value
\* is undefined
PongEnv(m) == IF "timestamp" \in DOMAIN m
                THEN [type |-> "pong", timestamp |-> m.timestamp]
                ELSE [type |-> "pong"]

\* request paths of upgrade requests: /ws/<id>, /ws/ and /api/1
Paths == {<<"ws", i>> : i \in Ids} \cup {<<"ws">>, <<"api", 1>>}

\* pathname.match(/^\/ws\/([a-f0-9-]+)$/i): the captured id, or no match
PathMatch(path) ==
  IF Len(path) = 2 /\ path[1] = "ws" THEN path[2] ELSE NoSession

\* the connection object the next accepted upgrade creates
FreeConn == IF \E c \in Conns : ready[c] = "NONE"
              THEN CHOOSE c \in Conns : ready[c] = "NONE" /\ \A d \in Conns : ready[d] = "NONE" => c <= d
              ELSE NoConn

\* server.on('upgrade') followed, for a resolvable id, by wss.on('connection');
\* the model accepts at most maxConns connections
HandleUpgrade(path, maxConns) ==
  LET id == getSession(PathMatch(path))
      c == FreeConn
  IN /\ IF PathMatch(path) = NoSession \/ id = NoSession
          THEN \* socket.write('HTTP/1.1 404 ...'); socket.destroy()
               /\ reply' = "404"
               /\ UNCHANGED <<connections, ready, sid, isAlive, attachTimer, sent>>
          ELSE /\ c # NoConn /\ c <= maxConns
               /\ reply' = "101"
               /\ ready' = [ready EXCEPT ![c] = "OPEN"]
               /\ sid' = [sid EXCEPT ![c] = id]
               /\ isAlive' = [isAlive EXCEPT ![c] = TRUE]
               /\ connections' = [connections EXCEPT ![id] = c]
               /\ sent' = [sent EXCEPT ![c] = <<StatusEnv(id)>>]
               /\ attachTimer' = [attachTimer EXCEPT ![c] = TRUE]
     /\ UNCHANGED <<outputBuffer, flushTimeout, flushTimers, dataAttached>>
     /\ UNCHANGED <<regVars, ptyVars, histVars, clientVars>>

\* an upgrade request of some client other than the page modelled above
Upgrade(path, maxConns) == HandleUpgrade(path, maxConns) /\ UNCHANGED netVars

\* the setTimeout callback that subscribes ptyDataHandler (100 ms after open)
AttachTimer(c) ==
  /\ attachTimer[c]
  /\ attachTimer' = [attachTimer EXCEPT ![c] = FALSE]
  /\ dataAttached' = [dataAttached EXCEPT ![c] = TRUE]
  /\ UNCHANGED <<connections, ready, sid, isAlive, outputBuffer, flushTimeout,
                 flushTimers, sent>>
  /\ UNCHANGED <<reply, regVars, ptyVars, histVars, clientVars, netVars>>

\* flushBuffer's condition for sending
FlushSends(c) == outputBuffer[c] # <<>> /\ ready[c] = "OPEN"

\* a flush that sends each buffered chunk in an envelope of its own
flushBufferSentPerChunk(c) ==
  IF FlushSends(c)
    THEN [i \in 1..Len(outputBuffer[c]) |-> OutputEnv(<<outputBuffer[c][i]>>)]
    ELSE <<>>

\* the envelopes flushBuffer sends on c
flushBufferSent(c) ==
  IF FlushSends(c) THEN <<OutputEnv(outputBuffer[c])>> ELSE <<>>

\* a flush that forgets outputBuffer = ''
flushBufferLeftKeeps(c) == outputBuffer[c]

\* outputBuffer after flushBuffer
flushBufferLeft(c) == IF FlushSends(c) THEN <<>> ELSE outputBuffer[c]

\* connections whose ptyDataHandler is subscribed to session id's PTY
DataHandlers(id) == {c \in Conns : dataAttached[c] /\ sid[c] = id}

\* connections whose ptyExitHandler is subscribed to session id's PTY
ExitHandlers(id) == {c \in Conns : ready[c] # "NONE" /\ sid[c] = id}

\* the PTY of session id emits one chunk: node-pty calls every subscribed
\* ptyDataHandler with it.  A killed process can still write until it exits.
\* The model emits at most maxChunks chunks.
PtyData(id, maxChunks) ==
  LET chunk == chunkNo + 1
      H == DataHandlers(id)
  IN /\ pty[id] \in {"running", "killed"}
     /\ chunkNo < maxChunks
     /\ chunkNo' = chunk
     /\ outputBuffer' = [c \in Conns |->
          IF c \in H THEN Append(outputBuffer[c], chunk) ELSE outputBuffer[c]]
     /\ flushTimeout' = [c \in Conns |-> flushTimeout[c] \/ c \in H]
     /\ flushTimers' = [c \in Conns |->
          IF c \in H /\ ~flushTimeout[c] THEN flushTimers[c] + 1 ELSE flushTimers[c]]
     /\ emittedTo' = [c \in Conns |->
          IF c \in H /\ ready[c] = "OPEN" THEN Append(emittedTo[c], chunk)
          ELSE emittedTo[c]]
     /\ window' = [c \in Conns |->
          IF c \notin H THEN window[c]
          ELSE IF flushTimeout[c] THEN Append(window[c], chunk) ELSE <<chunk>>]
     /\ UNCHANGED <<connections, ready, sid, isAlive, attachTimer, dataAttached,
                    sent>>
     /\ UNCHANGED <<reply, regVars, pty, ptyWrites, ptyDims, killCalls, unanswered, unheard,
                    nMsgs, lastMsg, terminated, answered, clientVars, netVars>>

\* a scheduled flushBuffer timer of c expires
FlushTimer(c) ==
  /\ flushTimers[c] > 0
  /\ flushTimers' = [flushTimers EXCEPT ![c] = @ - 1]
  /\ flushTimeout' = [flushTimeout EXCEPT ![c] = FALSE]
  /\ sent' = [sent EXCEPT ![c] = @ \o flushBufferSent(c)]
  /\ outputBuffer' = [outputBuffer EXCEPT ![c] = flushBufferLeft(c)]
  /\ UNCHANGED <<connections, ready, sid, isAlive, attachTimer, dataAttached>>
  /\ UNCHANGED <<reply, regVars, ptyVars, histVars, clientVars, netVars>>

\* an exit handler that sends exit without flushing first
ptyExitHandlerNoFlush(c, code) ==
  IF ready[c] = "OPEN" THEN <<ExitEnv(code)>> ELSE <<>>

\* the envelopes ptyExitHandler sends on c
ptyExitHandlerSent(c, code) ==
  flushBufferSent(c) \o (IF ready[c] = "OPEN" THEN <<ExitEnv(code)>> ELSE <<>>)

\* an exit handler of the registry that drops the entry of the exited process
PtyExitUnregisters(id, code) ==
  LET H == ExitHandlers(id)
  IN /\ pty[id] \in {"running", "killed"}
     /\ pty' = [pty EXCEPT ![id] = "exited"]
     /\ sessions' = sessions \ {id}
     /\ sent' = [c \in Conns |->
          IF c \in H THEN sent[c] \o ptyExitHandlerSent(c, code) ELSE sent[c]]
     /\ outputBuffer' = [c \in Conns |->
          IF c \in H THEN flushBufferLeft(c) ELSE outputBuffer[c]]
     /\ flushTimeout' = [c \in Conns |->
          IF c \in H /\ FlushSends(c) THEN FALSE ELSE flushTimeout[c]]
     /\ UNCHANGED <<connections, ready, sid, isAlive, flushTimers, attachTimer,
                    dataAttached>>
     /\ UNCHANGED <<reply, nextId, bootTimer, ptyWrites, ptyDims, chunkNo, killCalls, histVars, clientVars, netVars>>

\* the process of session id exits (by itself or after kill): node-pty calls
\* every subscribed ptyExitHandler once
PtyExit(id, code) ==
  LET H == ExitHandlers(id)
  IN /\ pty[id] \in {"running", "killed"}
     /\ pty' = [pty EXCEPT ![id] = "exited"]
     /\ sent' = [c \in Conns |->
          IF c \in H THEN sent[c] \o ptyExitHandlerSent(c, code) ELSE sent[c]]
     /\ outputBuffer' = [c \in Conns |->
          IF c \in H THEN flushBufferLeft(c) ELSE outputBuffer[c]]
     /\ flushTimeout' = [c \in Conns |->
          IF c \in H /\ FlushSends(c) THEN FALSE ELSE flushTimeout[c]]
     /\ UNCHANGED <<connections, ready, sid, isAlive, flushTimers, attachTimer,
                    dataAttached>>
     /\ UNCHANGED <<reply, regVars, ptyWrites, ptyDims, chunkNo, killCalls, histVars, clientVars, netVars>>

---------------------------------------------------------------------------
(* routes/ws.js: client messages *)

\* raw message payloads the client sends; the last one is not JSON
Messages ==
  { [type |-> "input", data |-> "x"], [type |-> "input", data |-> "y"],
    [type |-> "input", data |-> ""],
    [type |-> "resize", cols |-> 100, rows |-> 30],
    [type |-> "resize", cols |-> 0, rows |-> 0],
    [type |-> "resize", cols |-> -1, rows |-> 30],
    [type |-> "ping", timestamp |-> 1], [type |-> "ping", timestamp |-> 2],
    [type |-> "ping"], [type |-> "bogus"], [data |-> "x"], [raw |-> "{type:"] }

\* JSON.parse(message.toString()) returns an object (it throws otherwise)
Parses(m) == "raw" \notin DOMAIN m

\* a handler that treats a message without a type as input
TypeOfDefaultsToInput(m) == IF "type" \in DOMAIN m THEN m.type ELSE "input"

\* msg.type, undefined when the object has no such property
TypeOf(m) == IF "type" \in DOMAIN m THEN m.type ELSE "undefined"

\* JavaScript truthiness of msg.<f>: undefined, "" and 0 are falsy
Truthy(m, f) ==
  /\ f \in DOMAIN m
  /\ IF f = "data" THEN m[f] # "" ELSE m[f] # 0

\* an input case that writes the data twice
InputWritesTwice(m) ==
  IF Parses(m) /\ TypeOf(m) = "input" /\ Truthy(m, "data")
    THEN <<m.data, m.data>> ELSE <<>>

\* case 'input': the data session.pty.write is called with, if it is called
InputWrites(m) ==
  IF Parses(m) /\ TypeOf(m) = "input" /\ Truthy(m, "data")
    THEN <<m.data>> ELSE <<>>

\* case 'resize': session.pty.resize(cols, rows) is called
ResizeCalled(m) ==
  /\ Parses(m)
  /\ TypeOf(m) = "resize"
  /\ Truthy(m, "cols") /\ Truthy(m, "rows")

\* node-pty's resize throws on non-positive cols or rows (the throw is caught
\* by the handler's try/catch), and otherwise sets the dimensions
ResizeDims(m, old) ==
  IF ResizeCalled(m) /\ m.cols > 0 /\ m.rows > 0 THEN <<m.cols, m.rows>> ELSE old

\* case 'ping'
IsPing(m) == Parses(m) /\ TypeOf(m) = "ping"

\* the envelopes the message handler sends in answer to m
MessageSent(m) ==
  IF IsPing(m) THEN <<PongEnv(m)>> ELSE <<>>

\* ws.isAlive after the message handler ran on m
MessageAlive(m, alive) == IF IsPing(m) THEN TRUE ELSE alive

\* ws.on('message'); the model delivers at most maxMsgs messages
WsMessage(c, m, maxMsgs) ==
  LET id == sid[c]
  IN /\ ready[c] = "OPEN"
     /\ nMsgs < maxMsgs
     /\ nMsgs' = nMsgs + 1
     /\ lastMsg' = m
     /\ ptyWrites' = [ptyWrites EXCEPT ![id] = @ \o InputWrites(m)]
     /\ ptyDims' = [ptyDims EXCEPT ![id] = ResizeDims(m, @)]
     /\ isAlive' = [isAlive EXCEPT ![c] = MessageAlive(m, @)]
     /\ sent' = [sent EXCEPT ![c] = @ \o MessageSent(m)]
     /\ unheard' = [unheard EXCEPT ![c] = IF IsPing(m) THEN 0 ELSE @]
     /\ UNCHANGED <<connections, ready, sid, outputBuffer, flushTimeout, flushTimers,
                    attachTimer, dataAttached>>
     /\ UNCHANGED <<reply, regVars, pty, chunkNo, killCalls, emittedTo, window, unanswered,
                    terminated, answered, clientVars, netVars>>

\* a pong handler that leaves ws.isAlive as it is
WsPongKeepsFlag(c) ==
  /\ ready[c] = "OPEN"
  /\ unanswered' = [unanswered EXCEPT ![c] = 0]
  /\ unheard' = [unheard EXCEPT ![c] = 0]
  /\ answered' = [answered EXCEPT ![c] =
       IF unanswered[c] > 0 /\ @ < MaxPongs THEN @ + 1 ELSE @]
  /\ UNCHANGED <<connections, ready, sid, isAlive, outputBuffer, flushTimeout, flushTimers,
                 attachTimer, dataAttached, sent>>
  /\ UNCHANGED <<reply, regVars, ptyVars, emittedTo, window, nMsgs, lastMsg,
                 terminated, clientVars, netVars>>

\* ws.on('pong'): the peer answered a transport-level ping
WsPong(c) ==
  /\ ready[c] = "OPEN"
  /\ isAlive' = [isAlive EXCEPT ![c] = TRUE]
  /\ unanswered' = [unanswered EXCEPT ![c] = 0]
  /\ unheard' = [unheard EXCEPT ![c] = 0]
  /\ answered' = [answered EXCEPT ![c] =
       IF unanswered[c] > 0 /\ @ < MaxPongs THEN @ + 1 ELSE @]
  /\ UNCHANGED <<connections, ready, sid, outputBuffer, flushTimeout, flushTimers,
                 attachTimer, dataAttached, sent>>
  /\ UNCHANGED <<reply, regVars, ptyVars, emittedTo, window, nMsgs, lastMsg,
                 terminated, clientVars, netVars>>

\* wss.clients: sockets that completed the handshake and have not emitted 'close'
Clients == {c \in Conns : ready[c] \in {"OPEN", "CLOSING"}}

\* a heartbeat that never terminates
HeartbeatNeverTerminates(c) == FALSE

\* the heartbeat loop body's test: the socket is terminated
HeartbeatTerminates(c) == isAlive[c] = FALSE

\* one tick of the 25 s heartbeat interval; ws.terminate() destroys the socket
\* (readyState CLOSING), its 'close' event follows
Heartbeat ==
  /\ Clients # {}
  /\ ready' = [c \in Conns |->
       IF c \in Clients /\ HeartbeatTerminates(c) THEN "CLOSING" ELSE ready[c]]
  /\ isAlive' = [c \in Conns |-> IF c \in Clients THEN FALSE ELSE isAlive[c]]
  /\ unanswered' = [c \in Conns |->
       IF ready[c] = "OPEN" /\ ~HeartbeatTerminates(c) THEN unanswered[c] + 1 ELSE unanswered[c]]
  /\ unheard' = [c \in Conns |->
       IF ready[c] = "OPEN" /\ ~HeartbeatTerminates(c) THEN unheard[c] + 1 ELSE unheard[c]]
  /\ terminated' = [c \in Conns |->
       terminated[c] \/ (ready[c] = "OPEN" /\ HeartbeatTerminates(c))]
  /\ UNCHANGED <<connections, sid, outputBuffer, flushTimeout, flushTimers,
                 attachTimer, dataAttached, sent>>
  /\ UNCHANGED <<reply, regVars, ptyVars, emittedTo, window, nMsgs, lastMsg, answered, clientVars, netVars>>

\* ws.on('error'): the handler only logs; the ws library destroys the socket
\* (readyState CLOSING) and emits 'close' afterwards
WsError(c) ==
  /\ ready[c] = "OPEN"
  /\ ready' = [ready EXCEPT ![c] = "CLOSING"]
  /\ UNCHANGED <<connections, sid, isAlive, outputBuffer, flushTimeout, flushTimers,
                 attachTimer, dataAttached, sent>>
  /\ UNCHANGED <<reply, regVars, ptyVars, histVars, clientVars, netVars>>

\* close codes the 'close' event reports: normal, going away, abnormal
CloseCodes == {1000, 1001, 1006}

\* a close handler that also deletes the session it was bound to
WsCloseDeletesSession(c, code) ==
  /\ ready[c] \in {"OPEN", "CLOSING"}
  /\ ready' = [ready EXCEPT ![c] = "CLOSED"]
  /\ flushTimers' = [flushTimers EXCEPT ![c] =
       IF flushTimeout[c] /\ @ > 0 THEN @ - 1 ELSE @]
  /\ flushTimeout' = [flushTimeout EXCEPT ![c] = FALSE]
  /\ connections' = [connections EXCEPT ![sid[c]] = NoConn]
  /\ pty' = killPty(sid[c], TRUE)
  /\ killCalls' = [killCalls EXCEPT ![sid[c]] = @ + 1]
  /\ sessions' = sessions \ {sid[c]}
  /\ UNCHANGED <<sid, isAlive, outputBuffer, attachTimer, dataAttached, sent>>
  /\ UNCHANGED <<reply, nextId, bootTimer, ptyWrites, ptyDims, chunkNo, histVars, clientVars, netVars>>

\* ws.on('close', (code, reason) => ...): the peer closed (cleanly or not) or
\* the socket was destroyed; the code is only logged
WsClose(c, code) ==
  /\ ready[c] \in {"OPEN", "CLOSING"}
  /\ ready' = [ready EXCEPT ![c] = "CLOSED"]
  /\ flushTimers' = [flushTimers EXCEPT ![c] =
       IF flushTimeout[c] /\ @ > 0 THEN @ - 1 ELSE @]
  /\ flushTimeout' = [flushTimeout EXCEPT ![c] = FALSE]
  /\ connections' = [connections EXCEPT ![sid[c]] = NoConn]
  /\ UNCHANGED <<sid, isAlive, outputBuffer, attachTimer, dataAttached, sent>>
  /\ UNCHANGED <<reply, regVars, ptyVars, histVars, clientVars, netVars>>

---------------------------------------------------------------------------
(* public/js: App, the browser's side of one session.  The page reaches   *)
(* the server through WebSocket objects; what the network and the server  *)
(* do to a socket (open it, close it with some code, deliver a pong) is   *)
(* an input of the handlers below.                                        *)

\* a delay that doubles without the cap
ReconnectDelayUncapped(attempts) == BaseDelay * 2^attempts

\* Math.min(1000 * Math.pow(2, session.reconnectAttempts), 10000)
ReconnectDelay(attempts) ==
  IF BaseDelay * 2^attempts < CapDelay THEN BaseDelay * 2^attempts ELSE CapDelay

\* the WebSocket object the next `new WebSocket(wsUrl)` creates
NextSock ==
  IF \E k \in Socks : wsState[k] = "NONE"
  THEN CHOOSE k \in Socks : wsState[k] = "NONE" /\ \A j \in Socks : wsState[j] = "NONE" => k <= j
  ELSE NoSock

\* App.connectWebSocket(sessionId); present: this.sessions.get(sessionId) is defined
connectWebSocket(present, maxSocks) ==
  IF ~present
  THEN UNCHANGED <<wsState, sessionWs, status, inputListeners>>
  ELSE /\ NextSock # NoSock
       /\ NextSock <= maxSocks
       /\ wsState' = [wsState EXCEPT ![NextSock] = "CONNECTING"]
       /\ sessionWs' = NextSock
       /\ status' = "connecting"
       /\ inputListeners' = inputListeners + 1

\* App.initSession: the entry of App.sessions is created, then connectWebSocket(id)
InitSession(maxSocks) ==
  /\ ~inApp
  /\ status = "none"
  /\ inApp' = TRUE
  /\ reconnectAttempts' = 0
  /\ connectWebSocket(TRUE, maxSocks)
  /\ UNCHANGED <<closing, reconnectTimers, heartbeatInterval, pongTimers, pongTimeout, delays>>
  /\ UNCHANGED <<serverVars, netVars, inputSent, kbVars>>

\* App.checkAllConnections (visibilitychange, pageshow, online); the ping it
\* sends on an open socket changes nothing in the page
CheckAllConnections(maxSocks) ==
  /\ inApp
  /\ IF sessionWs = NoSock \/ wsState[sessionWs] # "OPEN"
     THEN connectWebSocket(TRUE, maxSocks)
     ELSE UNCHANGED <<wsState, sessionWs, status, inputListeners>>
  /\ UNCHANGED <<inApp, closing, reconnectAttempts, reconnectTimers, heartbeatInterval,
                 pongTimers, pongTimeout, delays>>
  /\ UNCHANGED <<serverVars, netVars, inputSent, kbVars>>

\* an onopen that leaves the attempt counter as it is
WsOnOpenKeepsAttempts(k) ==
  /\ wsState[k] = "CONNECTING"
  /\ wsState' = [wsState EXCEPT ![k] = "OPEN"]
  /\ status' = "connected"
  /\ heartbeatInterval' = k
  /\ delays' = <<>>
  /\ UNCHANGED <<inApp, closing, sessionWs, reconnectAttempts, reconnectTimers, pongTimers,
                 pongTimeout, inputListeners>>
  /\ UNCHANGED <<serverVars, netVars, inputSent, kbVars>>

\* ws.onopen of socket k
WsOnOpen(k) ==
  /\ wsState[k] = "CONNECTING"
  /\ wsState' = [wsState EXCEPT ![k] = "OPEN"]
  /\ reconnectAttempts' = 0
  /\ status' = "connected"
  /\ heartbeatInterval' = k
  /\ delays' = <<>>
  /\ UNCHANGED <<inApp, closing, sessionWs, reconnectTimers, pongTimers, pongTimeout, inputListeners>>
  /\ UNCHANGED <<serverVars, netVars, inputSent, kbVars>>

\* a tick of the 20 s interval started by ws.onopen of socket k.  The 10 s
\* timer of the previous tick has fired or was cleared before the next tick.
HeartbeatTick(k) ==
  /\ heartbeatInterval = k
  /\ k \notin pongTimers
  /\ IF wsState[k] = "OPEN"
     THEN pongTimers' = pongTimers \cup {k} /\ pongTimeout' = k
     ELSE UNCHANGED <<pongTimers, pongTimeout>>
  /\ UNCHANGED <<inApp, closing, wsState, sessionWs, status, reconnectAttempts,
                 reconnectTimers, heartbeatInterval, inputListeners, delays>>
  /\ UNCHANGED <<serverVars, netVars, inputSent, kbVars>>

\* the 10 s pong timer of socket k fires: ws.close()
PongTimeoutFires(k) ==
  /\ k \in pongTimers
  /\ pongTimers' = pongTimers \ {k}
  /\ wsState' = [wsState EXCEPT ![k] = IF @ \in {"CONNECTING", "OPEN"} THEN "CLOSING_NOCODE" ELSE @]
  /\ UNCHANGED <<inApp, closing, sessionWs, status, reconnectAttempts, reconnectTimers,
                 heartbeatInterval, pongTimeout, inputListeners, delays>>
  /\ UNCHANGED <<serverVars, netVars, inputSent, kbVars>>

\* ws.onmessage of socket k with a pong envelope: App.handleMessage, case "pong"
HandlePong(k) ==
  /\ wsState[k] \in {"OPEN", "CLOSING", "CLOSING_NOCODE"}
  /\ IF inApp /\ pongTimeout # NoSock
     THEN pongTimers' = pongTimers \ {pongTimeout} /\ pongTimeout' = NoSock
     ELSE UNCHANGED <<pongTimers, pongTimeout>>
  /\ UNCHANGED <<inApp, closing, wsState, sessionWs, status, reconnectAttempts,
                 reconnectTimers, heartbeatInterval, inputListeners, delays>>
  /\ UNCHANGED <<serverVars, netVars, inputSent, kbVars>>

\* the codes a close event of socket k can carry: 1000 after session.ws.close(1000),
\* 1005 after ws.close(), whatever the peer sent otherwise, 1006 when the
\* connection is lost before the closing handshake completes
ClientCloseCodes(k) ==
  IF wsState[k] = "CLOSING" THEN {1000, 1006}
  ELSE IF wsState[k] = "CLOSING_NOCODE" THEN {1005, 1006}
  ELSE IF wsState[k] = "CONNECTING" THEN {1006}
  ELSE {1000, 1001, 1006}

\* a reconnect branch that does not look at the close code
ReconnectsAnyCode(code) == reconnectAttempts < maxReconnectAttempts

\* a reconnect branch that does not look at the attempt budget
ReconnectsWithoutBudget(code) == code # 1000

\* the reconnect branch of ws.onclose is taken
Reconnects(code) == code # 1000 /\ reconnectAttempts < maxReconnectAttempts

\* ws.onclose of socket k with event.code = code
WsOnClose(k, code) ==
  /\ wsState[k] \in {"CONNECTING", "OPEN", "CLOSING", "CLOSING_NOCODE"}
  /\ code \in ClientCloseCodes(k)
  /\ wsState' = [wsState EXCEPT ![k] = "CLOSED"]
  /\ heartbeatInterval' = NoSock
  /\ pongTimers' = IF pongTimeout # NoSock THEN pongTimers \ {pongTimeout} ELSE pongTimers
  /\ pongTimeout' = NoSock
  /\ status' = "disconnected"
  /\ IF Reconnects(code)
     THEN /\ reconnectAttempts' = reconnectAttempts + 1
          /\ reconnectTimers' = reconnectTimers + 1
          /\ delays' = Append(delays, ReconnectDelay(reconnectAttempts + 1))
     ELSE UNCHANGED <<reconnectAttempts, reconnectTimers, delays>>
  /\ UNCHANGED <<inApp, closing, sessionWs, inputListeners>>
  /\ UNCHANGED <<serverVars, netVars, inputSent, kbVars>>

\* a reconnect timer fires: this.connectWebSocket(sessionId)
ReconnectTimer(maxSocks) ==
  /\ reconnectTimers > 0
  /\ reconnectTimers' = reconnectTimers - 1
  /\ connectWebSocket(inApp, maxSocks)
  /\ UNCHANGED <<inApp, closing, reconnectAttempts, heartbeatInterval, pongTimers,
                 pongTimeout, delays>>
  /\ UNCHANGED <<serverVars, netVars, inputSent, kbVars>>

\* the envelope App.sendInput sends for data
InputEnv(data) == [type |-> "input", data |-> data]

\* App.sendInput(sessionId, data): what it sends on session.ws
sendInput(data) ==
  IF inApp /\ sessionWs # NoSock /\ wsState[sessionWs] = "OPEN"
    THEN <<InputEnv(data)>> ELSE <<>>

\* the terminal emits one unit of input: xterm calls every listener that
\* connectWebSocket registered with session.terminal.onData, and each of them
\* calls sendInput
TerminalData(data) ==
  /\ inApp
  /\ inputSent' = [i \in 1..(inputListeners * Len(sendInput(data))) |-> sendInput(data)[1]]
  /\ UNCHANGED <<inApp, closing, wsState, sessionWs, status, reconnectAttempts,
                 reconnectTimers, heartbeatInterval, pongTimers, pongTimeout,
                 inputListeners, delays>>
  /\ UNCHANGED <<serverVars, netVars, kbVars>>

\* App.closeSession up to its await: session.ws.close(1000), DELETE sent
CloseSession ==
  /\ inApp
  /\ ~closing
  /\ closing' = TRUE
  /\ wsState' = IF sessionWs # NoSock /\ wsState[sessionWs] \in {"CONNECTING", "OPEN"}
                THEN [wsState EXCEPT ![sessionWs] = "CLOSING"]
                ELSE wsState
  /\ UNCHANGED <<inApp, sessionWs, status, reconnectAttempts, reconnectTimers,
                 heartbeatInterval, pongTimers, pongTimeout, inputListeners, delays>>
  /\ UNCHANGED <<serverVars, netVars, inputSent, kbVars>>

\* App.closeSession after its await: this.sessions.delete(sessionId), or the
\* catch when fetch rejected
CloseSessionDone(fetchOk) ==
  /\ closing
  /\ closing' = FALSE
  /\ inApp' = IF fetchOk THEN FALSE ELSE inApp
  /\ UNCHANGED <<wsState, sessionWs, status, reconnectAttempts, reconnectTimers,
                 heartbeatInterval, pongTimers, pongTimeout, inputListeners, delays>>
  /\ UNCHANGED <<serverVars, netVars, inputSent, kbVars>>

---------------------------------------------------------------------------
(* The page and the server together: the page's session is the first one  *)
(* the server created, and each WebSocket of the page carries one upgrade *)
(* request to /ws/<id>.                                                   *)

\* sessionData.id of the page's session
pageId == 1

\* App.initSession runs after POST /api/sessions returned the session
PageInit(maxSocks) ==
  /\ pty[pageId] # "none"
  /\ InitSession(maxSocks)

\* the upgrade request of socket k reaches the server
NetUpgrade(k, maxConns) ==
  /\ wsState[k] \in {"CONNECTING", "CLOSING"}
  /\ answer[k] = "none"
  /\ HandleUpgrade(<<"ws", pageId>>, maxConns)
  /\ answer' = [answer EXCEPT ![k] = IF reply' = "101" THEN "accepted" ELSE "rejected"]
  /\ UNCHANGED <<peer, clientIP, verdict>>

\* the 101 answer reaches the page: ws.onopen of socket k
NetOpen(k) ==
  /\ answer[k] = "accepted"
  /\ WsOnOpen(k)

---------------------------------------------------------------------------
(* middleware/tailscale.js and the entry points of index.js *)

\* A 32-bit integer is modelled by its two 16-bit halves <<high, low>>.

\* TAILSCALE_CIDR_START = 0x64400000 (100.64.0.0)
TAILSCALE_CIDR_START == <<25664, 0>>

\* TAILSCALE_CIDR_MASK = 0xffc00000 (/10)
TAILSCALE_CIDR_MASK == <<65472, 0>>

\* ipToInt's null
NoInt == <<-1, -1>>

\* client addresses, as the four parts of the dotted string: the two ends of
\* 100.64.0.0/10, its two neighbours, two addresses elsewhere and a string
\* whose second part is no byte
Addrs ==
  { <<100, 64, 0, 0>>, <<100, 127, 255, 255>>, <<100, 63, 255, 255>>,
    <<100, 128, 0, 0>>, <<8, 8, 8, 8>>, <<228, 64, 0, 1>>, <<100, 300, 0, 1>> }

\* ipToInt(ip): result = (result << 8) | num over the four parts
ipToInt(ip) ==
  IF \E i \in 1..4 : ip[i] < 0 \/ ip[i] > 255
    THEN NoInt
    ELSE <<ip[1] * 256 + ip[2], ip[3] * 256 + ip[4]>>

\* x & y on 16-bit halves
RECURSIVE BitAnd16(_, _)
BitAnd16(x, y) ==
  IF x = 0 \/ y = 0 THEN 0
  ELSE (x % 2) * (y % 2) + 2 * BitAnd16(x \div 2, y \div 2)

\* JavaScript's x & y on 32-bit integers
BitAnd(x, y) == <<BitAnd16(x[1], y[1]), BitAnd16(x[2], y[2])>>

\* a check that compares the first part of the address only
isTailscaleIPFirstByte(ip) == ipToInt(ip) # NoInt /\ ip[1] = 100

\* isTailscaleIP(ip)
isTailscaleIP(ip) ==
  /\ ipToInt(ip) # NoInt
  /\ BitAnd(ipToInt(ip), TAILSCALE_CIDR_MASK) = TAILSCALE_CIDR_START

\* ---- the strings the hook is handed.  A string is a sequence of characters.

\* the decimal digits, in order
Digits == <<"0", "1", "2", "3", "4", "5", "6", "7", "8", "9">>

IsDigit(ch) == \E d \in 1..10 : Digits[d] = ch

DigitOf(ch) == (CHOOSE d \in 1..10 : Digits[d] = ch) - 1

\* the number a sequence of digits denotes
RECURSIVE decimal(_)
decimal(ds) ==
  IF ds = <<>> THEN 0
  ELSE 10 * decimal(SubSeq(ds, 1, Len(ds) - 1)) + DigitOf(ds[Len(ds)])

\* parseInt's NaN
NaN == -100000

\* parseInt skips leading white space
RECURSIVE trimStart(_)
trimStart(str) == IF str # <<>> /\ Head(str) = " " THEN trimStart(Tail(str)) ELSE str

\* the longest prefix of str made of digits
RECURSIVE digitPrefix(_)
digitPrefix(str) ==
  IF str # <<>> /\ IsDigit(Head(str)) THEN <<Head(str)>> \o digitPrefix(Tail(str)) ELSE <<>>

\* parseInt(part, 10): white space is skipped, a sign is read, then the digits
\* up to the first character that is none; NaN when there is no digit
parseInt(part) ==
  LET t == trimStart(part)
      signed == t # <<>> /\ Head(t) \in {"-", "+"}
      ds == digitPrefix(IF signed THEN Tail(t) ELSE t)
  IN IF ds = <<>> THEN NaN
     ELSE IF signed /\ Head(t) = "-" THEN 0 - decimal(ds) ELSE decimal(ds)

\* ip.split("."): the pieces between the dots
RECURSIVE split(_)
split(str) ==
  IF \E i \in 1..Len(str) : str[i] = "."
    THEN LET i == CHOOSE i \in 1..Len(str) : str[i] = "." /\ \A j \in 1..(i - 1) : str[j] # "."
         IN <<SubSeq(str, 1, i - 1)>> \o split(SubSeq(str, i + 1, Len(str)))
    ELSE <<str>>

\* the prefix of an IPv6-mapped IPv4 address
MappedPrefix == <<":", ":", "f", "f", "f", "f", ":">>

\* if (ip.startsWith("::ffff:")) ip = ip.slice(7)
sliceMapped(str) ==
  IF Len(str) >= Len(MappedPrefix) /\ SubSeq(str, 1, Len(MappedPrefix)) = MappedPrefix
    THEN SubSeq(str, Len(MappedPrefix) + 1, Len(str))
    ELSE str

\* isTailscaleIP applied to a string: the prefix is cut, the string is split
\* at its dots, ipToInt wants four parts and reads each with parseInt
isTailscaleString(str) ==
  LET parts == split(sliceMapped(str))
  IN /\ Len(parts) = 4
     /\ isTailscaleIP([i \in 1..4 |-> parseInt(parts[i])])

\* tailscaleVerify(request, reply) on the request whose request.ip is clientIP
TailscaleVerify ==
  /\ verdict' = IF isTailscaleString(clientIP) THEN "passed" ELSE "403"
  /\ UNCHANGED <<serverVars, clientVars, answer, peer, clientIP>>

\* strings between two dots: octets in and out of range, and strings that are
\* no decimal number
FirstParts == { <<"1", "0", "0">>, <<"2", "2", "8">>, <<"9", "9">>, <<"1", "0", "0", "x">> }
SecondParts ==
  { <<"6", "4">>, <<"1", "2", "7">>, <<"6", "3">>, <<"1", "2", "8">>, <<"3", "0", "0">>,
    <<" ", "6", "4">>, <<>> }
LastParts == { <<"0">>, <<"2", "5", "5">>, <<"2", "5", "6">>, <<"1", "x">>, <<"-", "0">>, <<>> }

Dot == <<".">>

\* values of request.ip: four parts, with and without the ::ffff: prefix, and
\* strings of three and of five parts
AddrStrings ==
  LET Four == { a \o Dot \o b \o Dot \o c \o Dot \o d :
                  a \in FirstParts, b \in SecondParts, c \in LastParts, d \in LastParts }
      Three == { a \o Dot \o b \o Dot \o c : a \in FirstParts, b \in SecondParts, c \in LastParts }
      Five == { a \o Dot \o b \o Dot \o c \o Dot \o c \o Dot \o c :
                  a \in FirstParts, b \in SecondParts, c \in LastParts }
  IN Four \cup { MappedPrefix \o f : f \in Four } \cup Three \cup Five

\* POST /api/sessions behind the onRequest hook tailscaleVerify
HttpCreateSession(ip, spawnOk) ==
  IF isTailscaleIP(ip)
    THEN CreateSession(MaxWsIds, TRUE, spawnOk)
    ELSE /\ reply' = "403"
         /\ UNCHANGED <<regVars, ptyVars, wsVars, histVars, clientVars, netVars>>

\* DELETE /api/sessions/:id behind the onRequest hook tailscaleVerify
HttpDeleteSession(ip, id, killOk) ==
  IF isTailscaleIP(ip)
    THEN DeleteSession(id, killOk)
    ELSE /\ reply' = "403"
         /\ UNCHANGED <<regVars, ptyVars, wsVars, histVars, clientVars, netVars>>

\* an upgrade request from address ip: Node emits 'upgrade' on the HTTP server
\* for it, and the listener of routes/ws.js answers it; the address is only
\* logged by the connection handler
UpgradeFrom(ip, path, maxConns) ==
  /\ HandleUpgrade(path, maxConns)
  /\ peer' = IF reply' = "101" THEN [peer EXCEPT ![FreeConn] = ip] ELSE peer
  /\ UNCHANGED <<answer, clientIP, verdict>>

---------------------------------------------------------------------------
(* public/js: KeyboardStateManager and ResizeCoordinator.  The keyboard's  *)
(* visibility, focus and blur are inputs; a timer is a count of pending    *)
(* callbacks.                                                              *)

\* KeyboardStateManager.STATES
STATES == {"IDLE", "KEYBOARD_OPENING", "KEYBOARD_OPEN", "KEYBOARD_CLOSING"}

\* canModifyLayout()
canModifyLayout == currentState \in {"IDLE", "KEYBOARD_OPEN"}

\* isKeyboardVisible()
isKeyboardVisible == currentState \in {"KEYBOARD_OPENING", "KEYBOARD_OPEN"}

\* performFit() called while the manager is in state st: it returns early when
\* the last fit is less than MIN_INTERVAL_MS old (recent), and fits otherwise
performFit(st, recent) == IF recent THEN fitIn ELSE fitIn \cup {st}

\* clearTimeout(this.animationTimeout) on the timers t: a timer that has fired
\* is not pending any more
clearAnimation(t) ==
  IF animationTimeout # "null" /\ t[animationTimeout] > 0
    THEN [t EXCEPT ![animationTimeout] = @ - 1]
    ELSE t

\* transitionTo(newState) with the animation timers t pending when it is
\* called: onKeyboardOpening and onKeyboardClosing arm the animation timer,
\* onKeyboardOpen and onIdle call ResizeCoordinator.forceFit()
transitionTo(newState, t, recent) ==
  IF currentState = newState
    THEN /\ animTimers' = t
         /\ UNCHANGED <<currentState, animationTimeout, pendingFit, fitTimers, fitIn>>
    ELSE /\ currentState' = newState
         /\ IF newState = "KEYBOARD_OPENING"
              THEN /\ animTimers' = [clearAnimation(t) EXCEPT !["KEYBOARD_OPEN"] = @ + 1]
                   /\ animationTimeout' = "KEYBOARD_OPEN"
                   /\ UNCHANGED <<pendingFit, fitTimers, fitIn>>
              ELSE IF newState = "KEYBOARD_CLOSING"
                THEN /\ animTimers' = [clearAnimation(t) EXCEPT !["IDLE"] = @ + 1]
                     /\ animationTimeout' = "IDLE"
                     /\ UNCHANGED <<pendingFit, fitTimers, fitIn>>
                ELSE \* forceFit(): clearTimeout, pendingFit = false, performFit()
                     /\ animTimers' = clearAnimation(t)
                     /\ animationTimeout' = "null"
                     /\ fitTimers' = IF fitTimers > 0 THEN fitTimers - 1 ELSE 0
                     /\ pendingFit' = FALSE
                     /\ fitIn' = performFit(newState, recent)

\* a handleViewportResize that follows the keyboard also while it animates
ViewportTargetTracks(visible) ==
  IF currentState \in {"IDLE", "KEYBOARD_CLOSING"} /\ visible THEN "KEYBOARD_OPENING"
  ELSE IF currentState \in {"KEYBOARD_OPEN", "KEYBOARD_OPENING"} /\ ~visible THEN "KEYBOARD_CLOSING"
  ELSE currentState

\* the switch of handleViewportResize: the state it calls transitionTo with,
\* or the current state where it calls nothing
ViewportTarget(visible) ==
  IF currentState = "IDLE" /\ visible THEN "KEYBOARD_OPENING"
  ELSE IF currentState = "KEYBOARD_OPEN" /\ ~visible THEN "KEYBOARD_CLOSING"
  ELSE currentState

\* the visualViewport fires 'resize' and handleViewportResize finds the
\* keyboard visible or not (heightDiff > 100)
HandleViewportResize(visible) ==
  /\ keyboard' = visible
  /\ transitionTo(ViewportTarget(visible), animTimers, FALSE)
  /\ UNCHANGED <<serverVars, netVars>>
  /\ UNCHANGED <<inApp, closing, wsState, sessionWs, status, reconnectAttempts,
                 reconnectTimers, heartbeatInterval, pongTimers, pongTimeout,
                 inputListeners, inputSent, delays>>

\* onInputFocus()
OnInputFocus ==
  /\ transitionTo(IF currentState = "IDLE" THEN "KEYBOARD_OPENING" ELSE currentState,
                  animTimers, FALSE)
  /\ UNCHANGED keyboard
  /\ UNCHANGED <<serverVars, netVars>>
  /\ UNCHANGED <<inApp, closing, wsState, sessionWs, status, reconnectAttempts,
                 reconnectTimers, heartbeatInterval, pongTimers, pongTimeout,
                 inputListeners, inputSent, delays>>

\* onInputBlur()
OnInputBlur ==
  /\ transitionTo(IF currentState = "KEYBOARD_OPEN" THEN "KEYBOARD_CLOSING" ELSE currentState,
                  animTimers, FALSE)
  /\ UNCHANGED keyboard
  /\ UNCHANGED <<serverVars, netVars>>
  /\ UNCHANGED <<inApp, closing, wsState, sessionWs, status, reconnectAttempts,
                 reconnectTimers, heartbeatInterval, pongTimers, pongTimeout,
                 inputListeners, inputSent, delays>>

\* an animation timer armed by onKeyboardOpening or onKeyboardClosing expires:
\* its callback calls transitionTo(target)
AnimationTimer(target, recent) ==
  /\ animTimers[target] > 0
  /\ transitionTo(target, [animTimers EXCEPT ![target] = @ - 1], recent)
  /\ UNCHANGED keyboard
  /\ UNCHANGED <<serverVars, netVars>>
  /\ UNCHANGED <<inApp, closing, wsState, sessionWs, status, reconnectAttempts,
                 reconnectTimers, heartbeatInterval, pongTimers, pongTimeout,
                 inputListeners, inputSent, delays>>

\* ResizeCoordinator.requestFit(), called by Mobile.fitTerminal
RequestFit ==
  /\ IF ~canModifyLayout \/ pendingFit
       THEN UNCHANGED <<pendingFit, fitTimers>>
       ELSE /\ pendingFit' = TRUE
            /\ fitTimers' = (IF fitTimers > 0 THEN fitTimers - 1 ELSE 0) + 1
  /\ UNCHANGED <<currentState, animationTimeout, animTimers, keyboard, fitIn>>
  /\ UNCHANGED <<serverVars, netVars>>
  /\ UNCHANGED <<inApp, closing, wsState, sessionWs, status, reconnectAttempts,
                 reconnectTimers, heartbeatInterval, pongTimers, pongTimeout,
                 inputListeners, inputSent, delays>>

\* the debounce timer of requestFit expires: performFit(), pendingFit = false
FitTimer(recent) ==
  /\ fitTimers > 0
  /\ fitTimers' = fitTimers - 1
  /\ fitIn' = performFit(currentState, recent)
  /\ pendingFit' = FALSE
  /\ UNCHANGED <<currentState, animationTimeout, animTimers, keyboard>>
  /\ UNCHANGED <<serverVars, netVars>>
  /\ UNCHANGED <<inApp, closing, wsState, sessionWs, status, reconnectAttempts,
                 reconnectTimers, heartbeatInterval, pongTimers, pongTimeout,
                 inputListeners, inputSent, delays>>

---------------------------------------------------------------------------
(* Specifications *)

\* the registry with its timers and processes, up to MaxIds sessions created
Next ==
  \/ \E auto \in BOOLEAN, spawnOk \in BOOLEAN : CreateSession(MaxIds, auto, spawnOk)
  \/ \E id \in Ids, killOk \in BOOLEAN : DeleteSession(id, killOk)
  \/ \E id \in Ids : BootstrapTimer(id)
  \/ \E id \in Ids, code \in {0, 1} : PtyExit(id, code)

Spec == Init /\ [][Next]_vars

\* one session and its connections: output batching and process exit
NextWs ==
  \/ \E auto \in BOOLEAN, spawnOk \in BOOLEAN : CreateSession(MaxWsIds, auto, spawnOk)
  \/ \E id \in Ids, killOk \in BOOLEAN : DeleteSession(id, killOk)
  \/ \E id \in Ids : BootstrapTimer(id)
  \/ \E id \in Ids, code \in {0, 1} : PtyExit(id, code)
  \/ \E id \in Ids : PtyData(id, MaxChunks)
  \/ \E path \in Paths : Upgrade(path, MaxConns)
  \/ \E c \in Conns : AttachTimer(c)
  \/ \E c \in Conns : FlushTimer(c)
  \/ \E c \in Conns, code \in CloseCodes : WsClose(c, code)

SpecWs == Init /\ [][NextWs]_vars

\* one connection in full: output, client messages, heartbeat, errors, deletion
NextConn ==
  \/ \E auto \in BOOLEAN, spawnOk \in BOOLEAN : CreateSession(MaxWsIds, auto, spawnOk)
  \/ \E id \in Ids, killOk \in BOOLEAN : DeleteSession(id, killOk)
  \/ \E id \in Ids : BootstrapTimer(id)
  \/ \E id \in Ids, code \in {0, 1} : PtyExit(id, code)
  \/ \E id \in Ids : PtyData(id, SoloChunks)
  \/ \E path \in Paths : Upgrade(path, SoloConns)
  \/ \E c \in Conns : AttachTimer(c)
  \/ \E c \in Conns : FlushTimer(c)
  \/ \E c \in Conns, m \in Messages : WsMessage(c, m, SoloMsgs)
  \/ \E c \in Conns : WsPong(c)
  \/ Heartbeat
  \/ \E c \in Conns : WsError(c)
  \/ \E c \in Conns, code \in CloseCodes : WsClose(c, code)

SpecConn == Init /\ [][NextConn]_vars

\* one connection's message handling next to the output stream
NextMsg ==
  \/ \E auto \in BOOLEAN, spawnOk \in BOOLEAN : CreateSession(MaxWsIds, auto, spawnOk)
  \/ \E id \in Ids : BootstrapTimer(id)
  \/ \E id \in Ids, code \in {0, 1} : PtyExit(id, code)
  \/ \E id \in Ids : PtyData(id, MaxChunks)
  \/ \E path \in Paths : Upgrade(path, SoloConns)
  \/ \E c \in Conns : AttachTimer(c)
  \/ \E c \in Conns : FlushTimer(c)
  \/ \E c \in Conns, m \in Messages : WsMessage(c, m, MaxMsgs)
  \/ \E c \in Conns, code \in CloseCodes : WsClose(c, code)

SpecMsg == Init /\ [][NextMsg]_vars

\* the dimensions resizeSession is called with
ResizeArgs == {<<100, 30>>, <<0, 0>>, <<-1, 30>>}

\* the two ways to the PTY's resize: a connection's resize envelope and
\* resizeSession
NextResize ==
  \/ \E auto \in BOOLEAN, spawnOk \in BOOLEAN : CreateSession(MaxWsIds, auto, spawnOk)
  \/ \E id \in Ids, killOk \in BOOLEAN : DeleteSession(id, killOk)
  \/ \E id \in Ids, code \in {0, 1} : PtyExit(id, code)
  \/ \E path \in Paths : Upgrade(path, SoloConns)
  \/ \E c \in Conns, m \in Messages : WsMessage(c, m, MaxMsgs)
  \/ \E id \in Ids, d \in ResizeArgs : ResizeSession(id, d[1], d[2])
  \/ \E c \in Conns, code \in CloseCodes : WsClose(c, code)

SpecResize == Init /\ [][NextResize]_vars

\* the entry points of the server, requests coming from the addresses of Addrs
NextAccess ==
  \/ \E ip \in Addrs, spawnOk \in BOOLEAN : HttpCreateSession(ip, spawnOk)
  \/ \E ip \in Addrs, id \in Ids, killOk \in BOOLEAN : HttpDeleteSession(ip, id, killOk)
  \/ \E ip \in Addrs, path \in Paths : UpgradeFrom(ip, path, MaxConns)
  \/ \E c \in Conns, code \in CloseCodes : WsClose(c, code)

SpecAccess == Init /\ [][NextAccess]_vars

\* the hook on its own: a request arrives with some request.ip and
\* tailscaleVerify decides on it
InitVerify ==
  /\ InitProgram
  /\ clientIP \in AddrStrings
  /\ verdict = "none"

NextVerify == TailscaleVerify

SpecVerify == InitVerify /\ [][NextVerify]_vars


\* the registry next to the connections of its sessions: processes that exit
\* on their own, deletions and upgrade requests; sessions are created with
\* autoStartClaude: false
NextExit ==
  \/ \E spawnOk \in BOOLEAN : CreateSession(MaxIds, FALSE, spawnOk)
  \/ \E id \in Ids, killOk \in BOOLEAN : DeleteSession(id, killOk)
  \/ \E id \in Ids, code \in {0, 1} : PtyExit(id, code)
  \/ \E path \in Paths : Upgrade(path, SoloConns)
  \/ \E c \in Conns, code \in CloseCodes : WsClose(c, code)

SpecExit == Init /\ [][NextExit]_vars


\* the browser's connection management: sockets are opened, closed from
\* either side and replaced, up to MaxSocks of them
NextReconnect ==
  \/ InitSession(MaxSocks)
  \/ CheckAllConnections(MaxSocks)
  \/ \E k \in Socks : WsOnOpen(k)
  \/ \E k \in Socks : \E code \in {1000, 1001, 1005, 1006} : WsOnClose(k, code)
  \/ ReconnectTimer(MaxSocks)
  \/ CloseSession
  \/ \E fetchOk \in BOOLEAN : CloseSessionDone(fetchOk)

SpecReconnect == Init /\ [][NextReconnect]_vars

\* the browser's retry loop and its connection checks, up to RetrySocks sockets
NextRetry ==
  \/ InitSession(RetrySocks)
  \/ CheckAllConnections(RetrySocks)
  \/ \E k \in Socks : WsOnOpen(k)
  \/ \E k \in Socks : \E code \in {1000, 1001, 1005, 1006} : WsOnClose(k, code)
  \/ ReconnectTimer(RetrySocks)

SpecRetry == Init /\ [][NextRetry]_vars

\* the life of one session in the page without connection checks: its sockets
\* follow one another, with the heartbeat and the user's close
NextLife ==
  \/ InitSession(MaxSocks)
  \/ \E k \in Socks : WsOnOpen(k)
  \/ \E k \in Socks : HeartbeatTick(k)
  \/ \E k \in Socks : PongTimeoutFires(k)
  \/ \E k \in Socks : HandlePong(k)
  \/ \E k \in Socks : \E code \in {1000, 1001, 1005, 1006} : WsOnClose(k, code)
  \/ ReconnectTimer(MaxSocks)
  \/ CloseSession
  \/ \E fetchOk \in BOOLEAN : CloseSessionDone(fetchOk)

SpecLife == Init /\ [][NextLife]_vars

\* the page and the server: the session is created, used, deleted by any
\* client, and the page keeps reconnecting; a socket of the page opens only
\* when the server accepted its upgrade request, and can fail at any time
NextGone ==
  \/ \E auto \in BOOLEAN, spawnOk \in BOOLEAN : CreateSession(MaxWsIds, auto, spawnOk)
  \/ \E id \in Ids, killOk \in BOOLEAN : DeleteSession(id, killOk)
  \/ \E c \in Conns, code \in CloseCodes : WsClose(c, code)
  \/ PageInit(MaxSocks)
  \/ \E k \in Socks : NetUpgrade(k, MaxConns)
  \/ \E k \in Socks : NetOpen(k)
  \/ \E k \in Socks : \E code \in {1000, 1001, 1005, 1006} : WsOnClose(k, code)
  \/ ReconnectTimer(MaxSocks)

SpecGone == Init /\ [][NextGone]_vars

\* the browser with its heartbeat, up to FewSocks sockets
NextClient ==
  \/ InitSession(FewSocks)
  \/ CheckAllConnections(FewSocks)
  \/ \E k \in Socks : WsOnOpen(k)
  \/ \E k \in Socks : HeartbeatTick(k)
  \/ \E k \in Socks : PongTimeoutFires(k)
  \/ \E k \in Socks : HandlePong(k)
  \/ \E k \in Socks : \E code \in {1000, 1001, 1005, 1006} : WsOnClose(k, code)
  \/ ReconnectTimer(FewSocks)
  \/ CloseSession
  \/ \E fetchOk \in BOOLEAN : CloseSessionDone(fetchOk)

SpecClient == Init /\ [][NextClient]_vars

\* the terminal's input next to the sockets of the session that follow one
\* another, up to MaxSocks sockets
NextInput ==
  \/ InitSession(MaxSocks)
  \/ \E k \in Socks : WsOnOpen(k)
  \/ \E k \in Socks : \E code \in {1000, 1001, 1005, 1006} : WsOnClose(k, code)
  \/ ReconnectTimer(MaxSocks)
  \/ \E data \in {"x", "y"} : TerminalData(data)

SpecInput == Init /\ [][NextInput]_vars

\* the keyboard manager and the resize coordinator: the keyboard shows and
\* hides, the hidden input gains and loses focus, fits are requested
NextKeyboard ==
  \/ \E visible \in BOOLEAN : HandleViewportResize(visible)
  \/ OnInputFocus
  \/ OnInputBlur
  \/ \E target \in {"KEYBOARD_OPEN", "IDLE"}, recent \in BOOLEAN : AnimationTimer(target, recent)
  \/ RequestFit
  \/ \E recent \in BOOLEAN : FitTimer(recent)

SpecKeyboard == Init /\ [][NextKeyboard]_vars

\* the keyboard manager moved by viewport resizes and its timers alone (the
\* hidden input never gains or loses focus); a timer that is pending expires
\* eventually
NextViewport ==
  \/ \E visible \in BOOLEAN : HandleViewportResize(visible)
  \/ \E target \in {"KEYBOARD_OPEN", "IDLE"}, recent \in BOOLEAN : AnimationTimer(target, recent)
  \/ RequestFit
  \/ \E recent \in BOOLEAN : FitTimer(recent)

SpecViewportFair ==
  /\ Init /\ [][NextViewport]_vars
  /\ WF_vars(\E target \in {"KEYBOARD_OPEN", "IDLE"}, recent \in BOOLEAN : AnimationTimer(target, recent))
  /\ WF_vars(\E recent \in BOOLEAN : FitTimer(recent))

---------------------------------------------------------------------------
(* Properties *)

\* the chunks of the output envelopes sent on c, concatenated in send order
RECURSIVE Flatten(_)
Flatten(envs) ==
  IF envs = <<>> THEN <<>>
  ELSE (IF Head(envs).type = "output" THEN Head(envs).data ELSE <<>>)
         \o Flatten(Tail(envs))

Received(c) == Flatten(sent[c])

IsPrefix(s, t) == Len(s) <= Len(t) /\ SubSeq(t, 1, Len(s)) = s

\* C1: in every reachable state the number of registered sessions is at most
\* config.maxSessions.
C1_SessionCap == Cardinality(sessions) <= maxSessions

\* the registry is full and a further createSession has been refused
C1_Witness == Cardinality(sessions) = maxSessions /\ reply = "capacity"

\* a step taken by a handler of routes/ws.js (upgrade, message, pong, heartbeat,
\* error, close, attach timer, flush timer)
ConnEvent ==
  \/ \E path \in Paths : Upgrade(path, SoloConns)
  \/ \E c \in Conns : AttachTimer(c) \/ FlushTimer(c) \/ WsPong(c) \/ WsError(c)
  \/ \E c \in Conns, m \in Messages : WsMessage(c, m, SoloMsgs)
  \/ \E c \in Conns, code \in CloseCodes : WsClose(c, code)
  \/ Heartbeat

\* C2: no connection event (open, close with any code, error, heartbeat
\* termination, message, pong, timer of a connection) changes the state of a
\* PTY process or the set of registered sessions.
C2_ConnEventsKeepProcess ==
  [][ConnEvent => (pty' = pty /\ sessions' = sessions)]_vars

\* a connection was opened, pinged, terminated by the heartbeat and closed,
\* and its session is still registered with its process running
C2_Witness ==
  \E c \in Conns :
    /\ ready[c] = "CLOSED" /\ ~isAlive[c]
    /\ sid[c] \in sessions /\ pty[sid[c]] = "running"

Chunks(s) == {s[i] : i \in 1..Len(s)}

\* C3 as stated: a connection that has closed received, in its output
\* envelopes, exactly the chunks emitted while it was open and attached.
C3_NoChunkDropped ==
  \A c \in Conns : ready[c] = "CLOSED" => Received(c) = emittedTo[c]

\* C3 amended: the chunks a connection received are a prefix of the chunks
\* emitted while it was open and attached (none duplicated or reordered); while
\* it is open the missing ones are exactly its buffer, and after it closed they
\* are the chunks that were in its buffer, which are never sent.
C3_PrefixDelivered ==
  \A c \in Conns :
    /\ IsPrefix(Received(c), emittedTo[c])
    /\ ready[c] = "OPEN" => emittedTo[c] = Received(c) \o outputBuffer[c]
    /\ ready[c] # "OPEN" => IsPrefix(emittedTo[c], Received(c) \o outputBuffer[c])

\* a closed connection that received some output and lost a later chunk
C3_Witness ==
  \E c \in Conns :
    /\ ready[c] = "CLOSED"
    /\ Received(c) # <<>>
    /\ Len(Received(c)) < Len(emittedTo[c])

\* C4: no output chunk is delivered to two connections.
C4_NoDoubleDelivery ==
  \A c, d \in Conns :
    c # d => Chunks(Received(c)) \cap Chunks(Received(d)) = {}

\* C5: an exit envelope on a connection comes after output envelopes holding
\* every chunk emitted to the connection, and no output envelope follows it.
C5_ExitAfterOutput ==
  \A c \in Conns : \A i \in 1..Len(sent[c]) :
    sent[c][i].type = "exit" =>
      /\ Flatten(SubSeq(sent[c], 1, i - 1)) = emittedTo[c]
      /\ \A j \in (i + 1)..Len(sent[c]) : sent[c][j].type # "output"

\* the exit handler flushed a non-empty buffer (its flush timer is still
\* pending) and sent exit right after the output envelope
C5_Witness ==
  \E c \in Conns :
    /\ Len(sent[c]) >= 3
    /\ sent[c][Len(sent[c])].type = "exit"
    /\ sent[c][Len(sent[c]) - 1].type = "output"
    /\ flushTimers[c] > 0

\* C6: on an open connection, from the arming of the flush timer to its expiry
\* the chunks of the window stay buffered (none is sent early), and the expiry
\* sends exactly one output envelope holding them in emission order.
C6_OneEnvelopePerWindow ==
  [][\A c \in Conns :
       (flushTimeout[c] /\ ready[c] = "OPEN") =>
         /\ window[c] # <<>>
         /\ Chunks(window[c]) \cap Chunks(Received(c)) = {}
         /\ FlushTimer(c) =>
              /\ sent'[c] = Append(sent[c], OutputEnv(window[c]))
              /\ outputBuffer'[c] = <<>>]_vars

\* a flush timer delivered two chunks in one envelope while the process runs
C6_Witness ==
  \E c \in Conns :
    /\ sent[c] = <<StatusEnv(sid[c]), OutputEnv(<<1, 2>>)>>
    /\ flushTimers[c] = 0
    /\ pty[sid[c]] = "running"

\* C8: an upgrade request whose path names no registered session is answered
\* 404 on the raw socket and changes nothing else: no connection, no timer, no
\* subscription, no envelope.
C8_UnknownIdRejected ==
  [][\A path \in Paths :
       (Upgrade(path, MaxConns) /\ ~(\E i \in sessions : path = <<"ws", i>>)) =>
         /\ reply' = "404"
         /\ UNCHANGED <<regVars, ptyVars, wsVars, histVars>>]_vars

\* an upgrade was refused while a session is registered and a connection is open
C8_Witness ==
  /\ reply = "404"
  /\ sessions # {}
  /\ \E c \in Conns : ready[c] = "OPEN"

\* the pong envelopes sent on connection c so far
Pongs(c) == SelectSeq(sent[c], LAMBDA e : e.type = "pong")

\* C7: a ping envelope with timestamp T received on an open connection is
\* answered by exactly one pong envelope with timestamp T, appended to what
\* was sent on that connection and on no other; the buffered output, its
\* flush timer and the PTY stream are untouched; and no step other than the
\* receipt of a ping adds a pong.
C7_PingAnsweredOnce ==
  [][\A c \in Conns :
       /\ \A m \in Messages :
            (IsPing(m) /\ "timestamp" \in DOMAIN m /\ WsMessage(c, m, MaxMsgs)) =>
              /\ sent' = [sent EXCEPT ![c] =
                   Append(@, [type |-> "pong", timestamp |-> m.timestamp])]
              /\ UNCHANGED <<outputBuffer, flushTimeout, flushTimers, emittedTo,
                             window, pty, chunkNo>>
       /\ (~ \E m \in Messages : IsPing(m) /\ WsMessage(c, m, MaxMsgs)) =>
            Pongs(c)' = Pongs(c)]_vars

\* a pong with a timestamp was sent after an output envelope while further
\* output was waiting in the buffer
C7_Witness ==
  \E c \in Conns :
    /\ Len(sent[c]) >= 3
    /\ sent[c][Len(sent[c])].type = "pong"
    /\ "timestamp" \in DOMAIN sent[c][Len(sent[c])]
    /\ \E i \in 1..Len(sent[c]) : sent[c][i].type = "output"
    /\ outputBuffer[c] # <<>>
    /\ flushTimeout[c]

\* C9 (as stated): an open connection that was pinged at an earlier
\* heartbeat tick and on which no transport-level pong arrived since is no
\* longer open after the next tick.
C9_NoPongTerminated ==
  [][Heartbeat =>
       \A c \in Conns :
         (ready[c] = "OPEN" /\ unanswered[c] > 0) => ready'[c] # "OPEN"]_vars

\* C9: an open connection that was pinged at the previous heartbeat tick and
\* on which neither a transport-level pong nor an application-level ping
\* envelope arrived since is terminated by the next tick.
C9_SilentTerminated ==
  [][Heartbeat =>
       \A c \in Conns :
         (ready[c] = "OPEN" /\ unheard[c] > 0)
            => (ready'[c] = "CLOSING" /\ terminated'[c])]_vars

\* the heartbeat terminated a connection that was open
C9_Witness == \E c \in Conns : terminated[c] /\ ready[c] = "CLOSING"

\* C10 (as stated): the i-th delay scheduled since the last successful open
\* is min(base * 2^(i-1), capDelay): base, 2*base, 4*base, ...
C10_DelaysFromBase ==
  \A i \in 1..Len(delays) :
    delays[i] = IF BaseDelay * 2^(i - 1) < CapDelay THEN BaseDelay * 2^(i - 1) ELSE CapDelay

\* C10: the i-th delay scheduled since the last successful open is
\* min(base * 2^i, capDelay): 2*base, 4*base, 8*base, then capDelay.
C10_DelaysFromTwiceBase ==
  \A i \in 1..Len(delays) :
    delays[i] = IF BaseDelay * 2^i < CapDelay THEN BaseDelay * 2^i ELSE CapDelay

\* five retries were scheduled in a row, the last two at the cap
C10_Witness ==
  /\ Len(delays) = maxReconnectAttempts
  /\ delays[Len(delays)] = CapDelay
  /\ reconnectAttempts = maxReconnectAttempts

\* a step in which the page creates a WebSocket
NewAttempt == \E k \in Socks : wsState[k] = "NONE" /\ wsState'[k] = "CONNECTING"

\* C11 (as stated): once the attempt budget is used up and no retry is
\* pending, the page issues no further connection attempt.
C11_FailedIssuesNoAttempt ==
  [][(reconnectAttempts >= maxReconnectAttempts /\ reconnectTimers = 0) => ~NewAttempt]_vars

\* C11: once the attempt budget is used up, no step schedules a retry; a
\* connection attempt is then issued only by a retry timer that was already
\* pending or by checkAllConnections.  The attempt count never exceeds the
\* budget.
C11_FailedOnlyChecksReconnect ==
  [][/\ reconnectAttempts' <= maxReconnectAttempts
     /\ reconnectAttempts >= maxReconnectAttempts =>
          /\ reconnectTimers' <= reconnectTimers
          /\ NewAttempt =>
               (reconnectTimers' < reconnectTimers \/ CheckAllConnections(RetrySocks))]_vars

\* six sockets were closed, the last close scheduled no retry, and a
\* connection check has issued a seventh attempt
C11_Witness ==
  /\ \A k \in 1..(maxReconnectAttempts + 1) : wsState[k] = "CLOSED"
  /\ wsState[maxReconnectAttempts + 2] = "CONNECTING"
  /\ reconnectAttempts = maxReconnectAttempts
  /\ Len(delays) = maxReconnectAttempts
  /\ reconnectTimers = 0

\* C13: a close event with code 1000 schedules no retry, and a close event
\* with any other code (1001, 1005 after the pong timeout's ws.close(), 1006)
\* schedules exactly one while the attempt count is below the budget.
C13_OnlyAbnormalCloseRetries ==
  [][\A k \in Socks : \A code \in {1000, 1001, 1005, 1006} :
       WsOnClose(k, code) =>
         /\ code = 1000 => reconnectTimers' = reconnectTimers
         /\ (code # 1000 /\ reconnectAttempts < maxReconnectAttempts) =>
              reconnectTimers' = reconnectTimers + 1]_vars

\* the first socket failed and a retry created the second, which opened and
\* was then closed with code 1000: no retry is pending
C13_Witness ==
  /\ wsState[1] = "CLOSED" /\ wsState[2] = "CLOSED" /\ wsState[3] = "NONE"
  /\ reconnectAttempts = 0
  /\ reconnectTimers = 0
  /\ status = "disconnected"

\* the page's session was created on the server and has been deleted
Gone == pty[pageId] # "none" /\ pageId \notin sessions

\* the page has no open socket and no accepted upgrade on its way to it
Disconnected ==
  \A k \in Socks :
    wsState[k] # "OPEN" /\ ~(wsState[k] = "CONNECTING" /\ answer[k] = "accepted")

C14_RefusedCreateHasNoEffect ==
  [][\A auto \in BOOLEAN, spawnOk \in BOOLEAN :
       (Cardinality(sessions) >= maxSessions /\ CreateSession(MaxIds, auto, spawnOk)) =>
         /\ reply' = "capacity"
         /\ UNCHANGED <<sessions, nextId, bootTimer, ptyVars, wsVars>>]_vars

\* the registry holds maxSessions running sessions, auto-start timers are still
\* pending, and the fourth createSession has been refused without drawing an id
C14_Witness ==
  /\ reply = "capacity"
  /\ sessions = 1..maxSessions
  /\ nextId = maxSessions + 1
  /\ \A id \in sessions : pty[id] = "running"
  /\ pty[nextId] = "none"
  /\ bootTimer # {}

\* getAllSessions(): the values of the sessions Map
getAllSessions == sessions

\* createSession registers, on success, exactly one session under an id that
\* no session holds or ever held; getSession then finds it and getAllSessions
\* lists it
RegistersFreshId ==
  \E id \in Ids :
    /\ id \notin sessions /\ pty[id] = "none"
    /\ sessions' = sessions \cup {id}
    /\ pty'[id] = "running"
    /\ getSession(id)' = id
    /\ id \in getAllSessions'

\* C15 as stated: every createSession made while the registry holds fewer
\* than maxSessions entries succeeds and registers a fresh id.
C15_EveryCreateSucceeds ==
  [][\A auto \in BOOLEAN, spawnOk \in BOOLEAN :
       (Cardinality(sessions) < maxSessions /\ CreateSession(MaxIds, auto, spawnOk)) =>
         (reply' = "created" /\ RegistersFreshId)]_vars

\* C15: a createSession made while the registry holds fewer than maxSessions
\* entries (also after a delete has freed a slot) succeeds whenever spawnPty
\* returns, and then registers an id no current or earlier session has, which
\* getSession finds and getAllSessions lists right away; when spawnPty throws
\* the call fails and registers nothing.
C15_SpawnedCreateRegistersFreshId ==
  [][\A auto \in BOOLEAN, spawnOk \in BOOLEAN :
       (Cardinality(sessions) < maxSessions /\ CreateSession(MaxIds, auto, spawnOk)) =>
         IF spawnOk
           THEN reply' = "created" /\ RegistersFreshId
           ELSE reply' = "spawn_error" /\ UNCHANGED <<sessions, pty, bootTimer>>]_vars

\* the registry was full, a delete freed a slot, and the create that followed
\* was given an id above every earlier one
C15_Witness ==
  /\ reply = "created"
  /\ Cardinality(sessions) = maxSessions
  /\ MaxIds \in sessions
  /\ \E id \in Ids : id < MaxIds /\ id \notin sessions /\ killCalls[id] = 1

\* C16: deleteSession on a registered id returns true, calls kill on the
\* session's PTY once and removes the entry: getSession finds it no longer,
\* getAllSessions lists one session fewer, and a deleted id never comes back.
C16_DeleteKillsAndRemoves ==
  [][/\ \A id \in Ids, killOk \in BOOLEAN :
          (id \in sessions /\ DeleteSession(id, killOk)) =>
            /\ reply' = "deleted"
            /\ killCalls'[id] = killCalls[id] + 1
            /\ getSession(id)' = NoSession
            /\ getAllSessions' = getAllSessions \ {id}
            /\ Cardinality(sessions') = Cardinality(sessions) - 1
     /\ \A id \in Ids : (killCalls[id] > 0 /\ id \notin sessions) => getSession(id)' = NoSession]_vars

\* the registry was full, one session was deleted and its process killed, and
\* the freed slot is open
C16_Witness ==
  /\ reply = "deleted"
  /\ nextId = maxSessions + 1
  /\ Cardinality(sessions) = maxSessions - 1
  /\ \E id \in Ids : id \notin sessions /\ killCalls[id] = 1 /\ pty[id] = "killed"

\* C17: deleteSession on an id that is not registered (never created, or
\* deleted before) returns false without raising and changes neither the
\* registry, nor any PTY, nor any connection.
C17_UnknownDeleteHasNoEffect ==
  [][\A id \in Ids, killOk \in BOOLEAN :
       (id \notin sessions /\ DeleteSession(id, killOk)) =>
         /\ reply' = "notfound"
         /\ UNCHANGED <<regVars, ptyVars, wsVars>>]_vars

\* a session with an open connection was deleted, and a second deleteSession
\* of the same id has been answered with "not found"
C17_Witness ==
  /\ reply = "notfound"
  /\ \E id \in Ids :
       /\ id \notin sessions /\ killCalls[id] = 1
       /\ \E c \in Conns : sid[c] = id /\ ready[c] = "OPEN"

\* C18: deleteSession of a registered session, in its one step, cancels the
\* session's pending bootstrap timer, leaves no data or exit handler
\* subscribed to its PTY, and calls kill on it.
C18_DeleteCancelsAndDetaches ==
  [][\A id \in Ids, killOk \in BOOLEAN :
       (id \in sessions /\ DeleteSession(id, killOk)) =>
         /\ id \notin bootTimer'
         /\ DataHandlers(id)' = {}
         /\ ExitHandlers(id)' = {}
         /\ killCalls'[id] = killCalls[id] + 1]_vars

\* the number of times CLAUDE_COMMAND was written to the PTY of session id
BootWrites(id) ==
  Cardinality({i \in DOMAIN ptyWrites[id] : ptyWrites[id][i] = "claude"})

\* C19: the bootstrap command is written to a session's PTY at most once, by
\* no step other than the firing of the session's settle timer, and not when
\* the session is absent from the registry at that moment.
C19_BootstrapOnceIfRegistered ==
  [][\A id \in Ids :
       /\ BootWrites(id)' <= 1
       /\ BootWrites(id)' # BootWrites(id) =>
            (BootstrapTimer(id) /\ id \in sessions)]_vars

\* the timer fired and wrote the command, client input followed it, and the
\* session was deleted afterwards: the command is in the PTY's input once
C19_Witness ==
  \E id \in Ids :
    /\ ptyWrites[id] = <<"claude", "x">>
    /\ id \notin bootTimer
    /\ id \notin sessions

\* C20: on every connection that completed the handshake, the first envelope
\* the server sent is the status envelope with status "connected" and the id
\* of the session the connection is bound to; output, exit and pong
\* envelopes come after it.
C20_StatusFirst ==
  \A c \in Conns :
    ready[c] # "NONE" =>
      /\ sid[c] # NoSession
      /\ Len(sent[c]) >= 1
      /\ sent[c][1] = [type |-> "status", status |-> "connected", sessionId |-> sid[c]]

\* a connection on which the status envelope was followed by an output, a
\* pong and an exit envelope
C20_Witness ==
  \E c \in Conns :
    /\ Len(sent[c]) >= 4
    /\ sent[c][1].type = "status"
    /\ \A t \in {"output", "pong", "exit"} :
         \E i \in 2..Len(sent[c]) : sent[c][i].type = t

\* a message that is not JSON, or is JSON without a type or with a type other
\* than input, resize and ping
Malformed(m) ==
  \/ "raw" \in DOMAIN m
  \/ "type" \notin DOMAIN m
  \/ m.type \notin {"input", "resize", "ping"}

\* C21: the receipt of a message that is unparseable or has an unknown or
\* missing type writes nothing to a PTY, resizes none, sends no envelope, and
\* leaves the connection open with its output buffer, its flush and attach
\* timers, its liveness flag and the heartbeat's view of it as they were.
C21_MalformedMessageIgnored ==
  [][\A c \in Conns, m \in Messages :
       (Malformed(m) /\ WsMessage(c, m, MaxMsgs)) =>
         /\ ready'[c] = "OPEN"
         /\ UNCHANGED <<ptyVars, wsVars, regVars>>
         /\ UNCHANGED <<unanswered, unheard, terminated>>]_vars

\* a message that is not JSON was received on an open connection whose output
\* buffer is filled and whose flush timer is pending
C21_Witness ==
  \E c \in Conns :
    /\ lastMsg = [raw |-> "{type:"]
    /\ ready[c] = "OPEN"
    /\ outputBuffer[c] # <<>>
    /\ flushTimeout[c]
    /\ sent[c] = <<StatusEnv(sid[c])>>

\* the client input written to the PTY of session id (everything but the
\* bootstrap command)
InputsOf(id) == SelectSeq(ptyWrites[id], LAMBDA d : d # "claude")

\* C22: the receipt of an input envelope with non-empty data appends that
\* data, once, to what was written to the bound session's PTY, in the step of
\* its receipt; the receipt of a resize envelope with positive cols and rows
\* sets the PTY's dimensions in that step; neither touches the output buffer
\* or the flush timer, whatever their state; and no other step writes client
\* input to a PTY.
C22_InputForwardedAtOnce ==
  [][/\ \A c \in Conns, m \in Messages :
          WsMessage(c, m, MaxMsgs) =>
            /\ UNCHANGED <<outputBuffer, flushTimeout, flushTimers>>
            /\ ("raw" \notin DOMAIN m /\ "type" \in DOMAIN m /\ m.type = "input" /\ m.data # "") =>
                 ptyWrites' = [ptyWrites EXCEPT ![sid[c]] = Append(@, m.data)]
            /\ ("raw" \notin DOMAIN m /\ "type" \in DOMAIN m /\ m.type = "resize"
                  /\ m.cols > 0 /\ m.rows > 0) =>
                 ptyDims' = [ptyDims EXCEPT ![sid[c]] = <<m.cols, m.rows>>]
     /\ (~ \E c \in Conns, m \in Messages : WsMessage(c, m, MaxMsgs)) =>
          \A id \in Ids : InputsOf(id)' = InputsOf(id)]_vars

\* two inputs were written in the order of their receipt while output was
\* buffered and the flush timer pending
C22_Witness ==
  \E c \in Conns :
    /\ ready[c] = "OPEN"
    /\ InputsOf(sid[c]) = <<"x", "y">>
    /\ outputBuffer[c] # <<>>
    /\ flushTimeout[c]

\* a resize envelope whose cols or rows is zero or negative
NonPositiveResize(m) ==
  /\ "raw" \notin DOMAIN m /\ "type" \in DOMAIN m /\ m.type = "resize"
  /\ (m.cols <= 0 \/ m.rows <= 0)

\* the part of C23 about a connection: a resize envelope with a non-positive
\* dimension changes no PTY's dimensions and leaves the connection open
ResizeEnvelopeIgnored ==
  \A c \in Conns, m \in Messages :
    (NonPositiveResize(m) /\ WsMessage(c, m, MaxMsgs)) =>
      /\ ptyDims' = ptyDims
      /\ ready'[c] = "OPEN"
      /\ sent' = sent

\* C23: a resize whose cols or rows is zero or negative, whether it arrives
\* in a resize envelope or as a call of resizeSession, raises no error, leaves
\* the connection open and leaves the PTY's dimensions as they were.
C23_NonPositiveResizeIgnored ==
  [][/\ ResizeEnvelopeIgnored
     /\ \A id \in Ids, d \in ResizeArgs :
          ((d[1] <= 0 \/ d[2] <= 0) /\ ResizeSession(id, d[1], d[2])) =>
            /\ ptyDims' = ptyDims
            /\ reply' # "resize_error"]_vars

\* the connection's part of C23 on its own
C23_EnvelopePart == [][ResizeEnvelopeIgnored]_vars

\* the exit envelopes sent on connection c
Exits(c) == SelectSeq(sent[c], LAMBDA e : e.type = "exit")

\* C24: however many connections were attached to a session over time, the
\* exit of its process is notified once: no connection is sent more than one
\* exit envelope, and no two connections of the session are each sent one.
C24_ExitNotifiedOnce ==
  /\ \A c \in Conns : Len(Exits(c)) <= 1
  /\ \A c, d \in Conns :
       (c # d /\ sid[c] = sid[d]) => (Exits(c) = <<>> \/ Exits(d) = <<>>)

\* a socket of the page opens in this step
Opens == \E k \in Socks : wsState[k] = "CONNECTING" /\ wsState'[k] = "OPEN"

\* a socket of the page closes in this step
Closes == \E k \in Socks : wsState[k] # "CLOSED" /\ wsState'[k] = "CLOSED"

\* C25: every open of a socket sets the attempt counter to 0; the counter
\* falls in no other step; it grows only by one, in a close that schedules a
\* retry; and the first retry scheduled after an open waits the first delay of
\* the backoff, with the whole budget of attempts ahead of it.
C25_OpenResetsAttempts ==
  [][/\ Opens => reconnectAttempts' = 0
     /\ reconnectAttempts' < reconnectAttempts => Opens
     /\ reconnectAttempts' > reconnectAttempts =>
          /\ Closes
          /\ reconnectAttempts' = reconnectAttempts + 1
          /\ reconnectTimers' = reconnectTimers + 1
     /\ (reconnectAttempts = 0 /\ reconnectAttempts' > 0) =>
          delays' = <<2 * BaseDelay>>]_vars

\* two attempts failed, the third opened and reset the counter, and its
\* abnormal close scheduled a retry with the first delay again
C25_Witness ==
  /\ wsState[1] = "CLOSED" /\ wsState[2] = "CLOSED" /\ wsState[3] = "CLOSED"
  /\ wsState[4] = "NONE"
  /\ reconnectAttempts = 1
  /\ delays = <<2 * BaseDelay>>
  /\ reconnectTimers = 1

\* C26: when spawnPty throws during createSession, the call fails and leaves
\* the registry, its session count, the pending bootstrap timers and every
\* PTY as they were.
C26_FailedSpawnRegistersNothing ==
  [][\A auto \in BOOLEAN :
       (Cardinality(sessions) < maxSessions /\ CreateSession(MaxIds, auto, FALSE)) =>
         /\ reply' = "spawn_error"
         /\ sessions' = sessions
         /\ Cardinality(sessions') = Cardinality(sessions)
         /\ bootTimer' = bootTimer
         /\ pty' = pty]_vars

\* two sessions are registered and the third createSession failed in its
\* spawn: its id was drawn, no entry, no PTY and no timer exist for it
C26_Witness ==
  /\ reply = "spawn_error"
  /\ sessions = {1, 2}
  /\ nextId = 4
  /\ pty[3] = "none"
  /\ 3 \notin bootTimer

\* C27: when kill throws during deleteSession of a registered session (the
\* process keeps running), deleteSession still returns true and removes the
\* session, and nothing is sent to or closed on any connection.
C27_KillFailureNotRaised ==
  [][\A id \in Ids :
       (id \in sessions /\ pty[id] = "running" /\ DeleteSession(id, FALSE)) =>
         /\ reply' = "deleted"
         /\ id \notin sessions'
         /\ sent' = sent
         /\ ready' = ready]_vars

\* the session of an open connection was deleted, kill was called and failed
\* (the process still runs), and the connection was sent nothing but its
\* status envelope
C27_Witness ==
  \E id \in Ids, c \in Conns :
    /\ reply = "deleted"
    /\ id \notin sessions
    /\ killCalls[id] = 1
    /\ pty[id] = "running"
    /\ sid[c] = id /\ ready[c] = "OPEN"
    /\ sent[c] = <<StatusEnv(id)>>

\* C28: once a connection is closed none of its flush timers is pending, none
\* is armed again, its output buffer no longer grows and its PTY data handler
\* is no longer invoked (it is subscribed to no PTY), also when the close came
\* before the delayed attach.
C28_ClosedConnectionIsQuiet ==
  [][\A c \in Conns :
       ready[c] = "CLOSED" =>
         /\ flushTimers[c] = 0 /\ flushTimers'[c] = 0
         /\ ~flushTimeout'[c]
         /\ outputBuffer'[c] = outputBuffer[c]
         /\ ~dataAttached'[c]]_vars

\* the addresses of 100.64.0.0/10: 100.64.0.0 to 100.127.255.255
InRange(ip) ==
  /\ \A i \in 1..4 : ip[i] \in 0..255
  /\ ip[1] = 100
  /\ ip[2] \in 64..127

\* C29: a request for the session API from an address outside 100.64.0.0/10 is
\* answered 403 and changes nothing, and no connection is bound to a session
\* for an upgrade request from an address outside that range.
C29_OnlyTailscaleServed ==
  [][/\ \A ip \in Addrs, spawnOk \in BOOLEAN :
          (~InRange(ip) /\ HttpCreateSession(ip, spawnOk)) =>
            (reply' = "403" /\ UNCHANGED <<regVars, ptyVars, wsVars>>)
     /\ \A ip \in Addrs, id \in Ids, killOk \in BOOLEAN :
          (~InRange(ip) /\ HttpDeleteSession(ip, id, killOk)) =>
            (reply' = "403" /\ UNCHANGED <<regVars, ptyVars, wsVars>>)
     /\ \A c \in Conns : ready'[c] # "NONE" => InRange(peer'[c])]_vars

\* the hook's range check on its own: tailscaleVerify lets a request pass
\* exactly when its address lies in 100.64.0.0/10
C29_HookExact == \A ip \in Addrs : isTailscaleIP(ip) <=> InRange(ip)

\* C30: an open connection whose session is absent from the registry no
\* longer writes input to that session's PTY and is no longer handed output
\* of it: after deleteSession the connections bound to the session are closed
\* or cut off from its PTY.
C30_NoTrafficAfterDelete ==
  [][\A c \in Conns :
       (ready[c] = "OPEN" /\ sid[c] \notin sessions) =>
         /\ InputsOf(sid[c])' = InputsOf(sid[c])
         /\ emittedTo'[c] = emittedTo[c]]_vars

\* session.status of a registered session: set to 'running' by createSession
\* and assigned nowhere else
sessionStatus(id) == IF id \in sessions THEN "running" ELSE "none"

\* C31: a registry entry is removed only by deleteSession.  A process that
\* exits on its own leaves its session registered with status 'running' and
\* listed by getAllSessions; an upgrade request for it is still accepted, and
\* it still counts toward the limit createSession checks.
C31_OnlyDeleteUnregisters ==
  [][/\ \A id \in sessions :
          id \notin sessions' => (reply' = "deleted" /\ killCalls'[id] = killCalls[id] + 1)
     /\ \A id \in Ids, code \in {0, 1} :
          (id \in sessions /\ PtyExit(id, code)) =>
            /\ sessions' = sessions
            /\ sessionStatus(id)' = "running"
            /\ id \in getAllSessions'
     /\ \A id \in Ids :
          (id \in sessions /\ pty[id] = "exited" /\ killCalls[id] = 0
             /\ Upgrade(<<"ws", id>>, SoloConns)) => reply' = "101"
     /\ \A spawnOk \in BOOLEAN :
          (/\ Cardinality(sessions) = maxSessions
           /\ \E id \in sessions : pty[id] = "exited"
           /\ CreateSession(MaxIds, FALSE, spawnOk)) =>
            (reply' = "capacity" /\ sessions' = sessions)]_vars

\* the registry is full of sessions whose processes all exited on their own;
\* a connection was opened on one of them after its exit, and a further
\* createSession has been refused
C31_Witness ==
  /\ reply = "capacity"
  /\ Cardinality(sessions) = maxSessions
  /\ \A id \in sessions : pty[id] = "exited" /\ killCalls[id] = 0
  /\ \E c \in Conns : ready[c] = "OPEN" /\ sid[c] \in sessions /\ sent[c] = <<StatusEnv(sid[c])>>

\* getConnection(sessionId): connections.get(sessionId) || null
getConnection(id) == connections[id]

\* connections to session id that are open
OpenConns(id) == {c \in Conns : ready[c] = "OPEN" /\ sid[c] = id}

\* C32 as stated: getConnection(id) returns a connection exactly when some
\* connection to session id is open, and then it returns the open connection
\* that was opened last (connections are numbered in the order they open).
C32_MapMatchesOpenConnections ==
  \A id \in Ids :
    /\ (getConnection(id) # NoConn) <=> (OpenConns(id) # {})
    /\ OpenConns(id) # {} =>
         /\ getConnection(id) \in OpenConns(id)
         /\ \A c \in OpenConns(id) : c <= getConnection(id)

\* sockets of the session that are connecting or open
LiveSocks == {k \in Socks : wsState[k] \in {"CONNECTING", "OPEN"}}

\* C33 as stated: at most one WebSocket of the session is connecting or open
\* at any time, and connectWebSocket creates a socket only when no socket of
\* the session is connecting or open and no reconnect timer remains pending.
C33_OneLiveSocket ==
  /\ [](Cardinality(LiveSocks) <= 1)
  /\ [][NewAttempt => (LiveSocks = {} /\ reconnectTimers' = 0)]_vars

\* C34 as stated: each unit of input the terminal produces while the session's
\* socket is open results in exactly one input envelope sent to the server,
\* whatever the number of sockets the session has had.
C34_OneEnvelopePerInput ==
  [][\A data \in {"x", "y"} :
       (sessionWs # NoSock /\ wsState[sessionWs] = "OPEN" /\ TerminalData(data)) =>
         inputSent' = <<[type |-> "input", data |-> data]>>]_vars

\* C35: a heartbeat tick never terminates an open connection whose peer has
\* answered every transport ping sent on it so far: the connection stays open
\* and is pinged again, whatever output, input and ping envelopes went over it.
C35_AnsweringPeerSurvives ==
  [][Heartbeat =>
       \A c \in Conns :
         (ready[c] = "OPEN" /\ unanswered[c] = 0) =>
            (ready'[c] = "OPEN" /\ ~terminated'[c] /\ unanswered'[c] = 1)]_vars

\* a connection that answered MaxPongs pings, each before the next tick, and
\* received a client message and output in between, has survived a further
\* tick
C35_Witness ==
  \E c \in Conns :
    /\ ready[c] = "OPEN" /\ ~terminated[c]
    /\ answered[c] = MaxPongs /\ unanswered[c] = 1 /\ ~isAlive[c]
    /\ nMsgs > 0 /\ emittedTo[c] # <<>>

\* C36: on an open connection whose data handler is attached, a non-empty
\* output buffer always has its flush timer pending, armed no later than the
\* first buffered chunk arrived, so the buffer is sent when that 50 ms timer
\* expires; and no output envelope ever sent carries empty data.
C36_BufferedMeansTimerPending ==
  \A c \in Conns :
    /\ (ready[c] = "OPEN" /\ dataAttached[c] /\ outputBuffer[c] # <<>>) =>
         /\ flushTimeout[c]
         /\ flushTimers[c] > 0
         /\ outputBuffer[c] = window[c]
    /\ \A i \in 1..Len(sent[c]) :
         sent[c][i].type = "output" => sent[c][i].data # <<>>

\* a connection received the first chunk at the expiry of its flush timer and
\* holds the second chunk in its buffer with a new timer pending
C36_Witness ==
  \E c \in Conns :
    /\ ready[c] = "OPEN" /\ dataAttached[c]
    /\ sent[c] = <<StatusEnv(sid[c]), OutputEnv(<<1>>)>>
    /\ outputBuffer[c] = <<2>>
    /\ flushTimeout[c] /\ flushTimers[c] = 1

\* a part of a dotted IPv4 address: decimal digits that denote a byte
Octet(part) ==
  /\ part # <<>>
  /\ \A i \in 1..Len(part) : IsDigit(part[i])
  /\ decimal(part) \in 0..255

\* a dotted IPv4 address, with or without the ::ffff: prefix, whose first octet
\* is 100 and whose second octet lies in 64..127
DottedInRange(str) ==
  LET parts == split(sliceMapped(str))
  IN /\ Len(parts) = 4
     /\ \A i \in 1..4 : Octet(parts[i])
     /\ decimal(parts[1]) = 100
     /\ decimal(parts[2]) \in 64..127

\* C37 as stated: the check passes a string exactly when it is a dotted IPv4
\* address, optionally prefixed with ::ffff:, with four octets in 0..255, the
\* first 100 and the second in 64..127; every other string is refused.
C37_PassesExactlyTailscaleAddresses ==
  verdict # "none" => (verdict = "passed" <=> DottedInRange(clientIP))

\* every part of str between dots is a string of decimal digits
DecimalParts(str) ==
  \A i \in 1..Len(split(sliceMapped(str))) :
    LET part == split(sliceMapped(str))[i]
    IN part # <<>> /\ \A j \in 1..Len(part) : IsDigit(part[j])

\* the check is exact on strings made of decimal parts, also where the first
\* octet has its top bit set
C37_DecimalPartsExact ==
  (verdict # "none" /\ DecimalParts(clientIP)) =>
     (verdict = "passed" <=> DottedInRange(clientIP))

\* the transitions of the cycle IDLE -> KEYBOARD_OPENING -> KEYBOARD_OPEN ->
\* KEYBOARD_CLOSING -> IDLE
Cycle ==
  { <<"IDLE", "KEYBOARD_OPENING">>, <<"KEYBOARD_OPENING", "KEYBOARD_OPEN">>,
    <<"KEYBOARD_OPEN", "KEYBOARD_CLOSING">>, <<"KEYBOARD_CLOSING", "IDLE">> }

\* the manager is in one of the two states that last as long as the animation
Animating == currentState \in {"KEYBOARD_OPENING", "KEYBOARD_CLOSING"}

\* C38: the manager changes state only along the cycle; a viewport resize, a
\* focus or a blur that arrives while it is in KEYBOARD_OPENING or
\* KEYBOARD_CLOSING changes nothing of it; those two states are left only by
\* the expiry of an animation timer; and at most one animation timer is
\* pending at any time.
C38_KeyboardCycle ==
  /\ [](animTimers["KEYBOARD_OPEN"] + animTimers["IDLE"] <= 1)
  /\ [][/\ currentState' # currentState => <<currentState, currentState'>> \in Cycle
        /\ (Animating /\ currentState' # currentState) =>
              /\ animTimers[currentState'] = 1
              /\ animTimers'[currentState'] = 0
        /\ \A visible \in BOOLEAN :
              (Animating /\ (HandleViewportResize(visible) \/ OnInputFocus \/ OnInputBlur)) =>
                 UNCHANGED <<currentState, animationTimeout, animTimers>>]_vars

\* the manager went round the whole cycle and is back in IDLE with no timer
\* pending, while the keyboard is visible: the resize event that reported it
\* arrived in a state where it causes no transition; fits were made in
\* KEYBOARD_OPEN and in IDLE
C38_Witness ==
  /\ currentState = "IDLE"
  /\ keyboard
  /\ animationTimeout = "null"
  /\ animTimers["KEYBOARD_OPEN"] + animTimers["IDLE"] = 0
  /\ {"KEYBOARD_OPEN", "IDLE"} \subseteq fitIn

\* C39 as stated: performFit never fits the terminal while the manager is in
\* KEYBOARD_OPENING or KEYBOARD_CLOSING, whether it runs from the debounce
\* timer of requestFit or from forceFit.
C39_NoFitWhileAnimating ==
  fitIn \cap {"KEYBOARD_OPENING", "KEYBOARD_CLOSING"} = {}

\* the state of the manager that agrees with the keyboard's visibility
Agrees == currentState = (IF keyboard THEN "KEYBOARD_OPEN" ELSE "IDLE")

\* C40 as stated: once the keyboard's visibility stops changing, the manager
\* eventually reaches the state that agrees with it and stays there.
C40_SettlesWithKeyboard ==
  \A visible \in BOOLEAN : <>[](keyboard = visible) => <>[]Agrees

=============================================================================
